---------------------------- MODULE Spec2Model ----------------------------
(***************************************************************************)
(* A model of pixelart-gen: the palette-constrained pixelizer              *)
(* (src/src/main.rs, color.rs, image.rs) and the chart generator's pattern *)
(* composer (src/src/bin/pdfgen.rs).                                       *)
(*                                                                         *)
(* Numbers.  The program computes in f64.  The model computes in integer   *)
(* fixed point and says so at each definition:                             *)
(*   - a Lab channel is an integer count of 1/ColorUnit Lab units;         *)
(*   - the temperature is an integer count of 1/TempUnit;                  *)
(*   - a conditional probability is a count of 1/ProbUnit, a palette       *)
(*     marginal a count of 1/MargUnit(N);                                  *)
(*   - a quotient rounds towards minus infinity (\div), so a quotient      *)
(*     smaller than one unit is 0: the model's analogue of f64 underflow;  *)
(*   - NaN is a value of its own which every operation propagates and      *)
(*     every comparison answers FALSE for, as IEEE 754 does.               *)
(***************************************************************************)
EXTENDS Integers, Sequences, FiniteSets, TLC

(***************************************************************************)
(* Bounds of the model (not program constants).                            *)
(***************************************************************************)
MaxSide == 2
MaxColorCount == 3
MaxUsed == 201

(***************************************************************************)
(* Resolution of the fixed-point representation of the program's f64.      *)
(***************************************************************************)
ColorUnit == 4
TempUnit == 10
ProbUnit == 256
WeightUnit == 16
CostUnit == 8

(***************************************************************************)
(* Program constants, main.rs:23-26 and the literals of the code.          *)
(***************************************************************************)
ALPHA_NUM == 7
ALPHA_DEN == 10
T_FINAL == TempUnit
EPSILON_PALETTE == ColorUnit
EPSILON_CLUSTER_NUM == 1
EPSILON_CLUSTER_DEN == 4
RING_LEN == 100
VARIANCE_PASSES == 100
F64_MAX == 1073741823
SPATIAL_WEIGHT == 45

NaN == 0 - 999999

IsNaN(x) == x = NaN

Abs(x) == IF x < 0 THEN 0 - x ELSE x

Min(a, b) == IF a <= b THEN a ELSE b

RECURSIVE ISqrtBS(_, _, _)
ISqrtBS(x, lo, hi) ==
    IF lo >= hi THEN lo
    ELSE LET mid == (lo + hi + 1) \div 2
         IN  IF mid * mid <= x THEN ISqrtBS(x, mid, hi)
                               ELSE ISqrtBS(x, lo, mid - 1)

\* floor(sqrt(x)) for 0 <= x < 2^31
ISqrt(x) == ISqrtBS(x, 0, 46340)

RECURSIVE Pow2(_)
Pow2(n) == IF n <= 0 THEN 1 ELSE 2 * Pow2(n - 1)

RECURSIVE SumSeq(_)
SumSeq(s) == IF s = <<>> THEN 0 ELSE Head(s) + SumSeq(Tail(s))

\* f64 addition, subtraction and the sum of a sequence, NaN propagating
FAdd(x, y) == IF IsNaN(x) \/ IsNaN(y) THEN NaN ELSE x + y

FSub(x, y) == IF IsNaN(x) \/ IsNaN(y) THEN NaN ELSE x - y

RECURSIVE FSum(_)
FSum(s) == IF s = <<>> THEN 0 ELSE FAdd(Head(s), FSum(Tail(s)))

\* f64 comparison: FALSE as soon as one side is NaN
FLess(x, y) == ~IsNaN(x) /\ ~IsNaN(y) /\ x < y

\* f64::max, which returns the other operand when one is NaN
FMax(x, y) == IF IsNaN(x) THEN y ELSE IF IsNaN(y) THEN x ELSE IF x >= y THEN x ELSE y

RECURSIVE FMaxSeq(_)
FMaxSeq(s) == IF Len(s) = 1 THEN s[1] ELSE FMax(s[1], FMaxSeq(Tail(s)))

\* e^(-x) for x = num/den >= 0, as a count of 1/WeightUnit: the base is 2 and
\* the exponent is floored, so the value is 1 at 0, decreases with x and is
\* flushed to 0 for large x, as exp is in f64.
ExpNegFloor(n) == IF IsNaN(n) THEN NaN ELSE WeightUnit \div Pow2(n)

ExpNeg(num, den) ==
    IF IsNaN(num) \/ IsNaN(den) THEN NaN ELSE ExpNegFloor(num \div den)

\* f64 multiplication of two non-negative counts, NaN propagating
FMul(x, y) == IF IsNaN(x) \/ IsNaN(y) THEN NaN ELSE x * y

\* x / d as a count of 1/unit, for 0 <= x <= d: 0/0 is NaN
FDiv(x, d, unit) ==
    IF IsNaN(x) \/ IsNaN(d) \/ d = 0 THEN NaN ELSE (x * unit) \div d

(***************************************************************************)
(* color.rs: Color is a Lab triple <<l, a, b>>.                            *)
(***************************************************************************)
BLACK == <<0, 0, 0>>

NaNColor == <<NaN, NaN, NaN>>

ColorIsNaN(c) == IsNaN(c[1]) \/ IsNaN(c[2]) \/ IsNaN(c[3])

ColorAdd(c, d) == <<FAdd(c[1], d[1]), FAdd(c[2], d[2]), FAdd(c[3], d[3])>>

\* the square of Color::distance, in squared channel units
Dist2(c, d) ==
    IF ColorIsNaN(c) \/ ColorIsNaN(d) THEN NaN
    ELSE (c[1] - d[1]) * (c[1] - d[1]) + (c[2] - d[2]) * (c[2] - d[2])
         + (c[3] - d[3]) * (c[3] - d[3])

\* Color::distance, in channel units, rounded down
Distance(c, d) == IF IsNaN(Dist2(c, d)) THEN NaN ELSE ISqrt(Dist2(c, d))

\* Color::perturb: delta.x goes to l, delta.y to a and to b
Perturb(c, delta) == <<FAdd(c[1], delta[1]), FAdd(c[2], delta[2]), FAdd(c[3], delta[2])>>

\* Div<f64>: every channel divided by n
ColorDiv(c, n) ==
    IF ColorIsNaN(c) \/ IsNaN(n) \/ n = 0 THEN NaNColor
    ELSE <<c[1] \div n, c[2] \div n, c[3] \div n>>

\* Mul<f64>: every channel multiplied by an integer weight
ColorScale(c, w) ==
    IF ColorIsNaN(c) \/ IsNaN(w) THEN NaNColor
    ELSE <<c[1] * w, c[2] * w, c[3] * w>>

RECURSIVE ColorSum(_)
ColorSum(s) == IF s = <<>> THEN BLACK ELSE ColorAdd(Head(s), ColorSum(Tail(s)))

(***************************************************************************)
(* State.                                                                  *)
(*   img, in_size            LabImage (image.rs:9-13), row-major           *)
(*   out_size                main.rs:54-66                                 *)
(*   super_pixels            Vec<SuperPixel> (main.rs:217-229), row-major  *)
(*   pending                 the tasks of a parallel loop that have not    *)
(*                           run yet: the per-pixel tasks of sp_refine,    *)
(*                           the per-superpixel tasks of the snapper       *)
(*   palette, clusters, k, t, delta, color_count                           *)
(*                           the optimizer's locals in main                *)
(*   total_change .. variance_check_passed_count                           *)
(*                           the convergence detector's locals in main     *)
(*   output, saved           the output raster and whether it was written  *)
(*   expand_log              what the last cooling step did with expand:   *)
(*                           called, the clusters split, and whether a     *)
(*                           collapse has happened so far (observation)    *)
(*   pdf_img                 pdfgen: the raster after the snapping of      *)
(*                           pdfgen.rs:126-165, one catalog colour a pixel *)
(*   colors                  pdfgen: the Vec of (color, freq, floss)       *)
(*   color_symbol_map        pdfgen: the symbol given to a colour so far   *)
(*   pdf_size                pdfgen: width and height of the raster        *)
(*   rgba                    pdfgen: the input after to_rgba8, a colour    *)
(*                           and an alpha for every pixel                  *)
(*   sub_images              pdfgen: the tiles pushed by sub_divide_images *)
(*   total_pages             pdfgen: the page count of pdfgen.rs:179-184   *)
(*   overlay                 pdfgen: the glyphs drawn by                   *)
(*                           draw_image_overlay so far                     *)
(*   top, page_idx, row_idx, col_idx                                       *)
(*                           pdfgen: the locals of the legend loop,        *)
(*                           pdfgen.rs:542-545 (top in mm)                 *)
(*   color_idx               pdfgen: the position of the legend loop in    *)
(*                           colors (idx of pdfgen.rs:552)                 *)
(*   pages                   pdfgen: the page indices printed so far (the  *)
(*                           n of every "n / total_pages" rendered)        *)
(*   dmc_json                the entries of dmc_colors.json                *)
(*   dmc_vec                 main: the Vec returned by load_dmc_colors     *)
(*   floss_map               pdfgen: the map returned by load_dmc_colors   *)
(*   glyphs                  pdfgen: the answers of                        *)
(*                           font_contains_char_glpyh                      *)
(*   symbol_font_map         pdfgen: the font recorded for a symbol        *)
(*   pc                      the position of the program                   *)
(***************************************************************************)
VARIABLES in_size, out_size, img, super_pixels, pending, pc,
          palette, clusters, k, t, delta, color_count,
          total_change, running_average, prev_changes,
          running_variance_avg, prev_variances, variance_check_passed_count,
          output, saved, expand_log,
          pdf_img, colors, color_symbol_map,
          pdf_size, rgba, sub_images, total_pages, overlay,
          top, page_idx, row_idx, col_idx, color_idx, pages,
          dmc_json, dmc_vec, floss_map, glyphs, symbol_font_map

imgVars == <<in_size, out_size, img>>

optVars == <<palette, clusters, k, t, delta, color_count>>

detVars == <<total_change, running_average, prev_changes,
             running_variance_avg, prev_variances, variance_check_passed_count>>

outVars == <<output, saved>>

legendVars == <<top, page_idx, row_idx, col_idx, color_idx, pages>>

tileVars == <<pdf_size, rgba, sub_images, total_pages, overlay, legendVars>>

catalogVars == <<dmc_json, dmc_vec, floss_map>>

fontVars == <<glyphs, symbol_font_map>>

pdfVars == <<pdf_img, colors, color_symbol_map, tileVars, catalogVars, fontVars>>

vars == <<imgVars, super_pixels, pending, pc, optVars, detVars, outVars, expand_log, pdfVars>>

(***************************************************************************)
(* image.rs and the geometry of main.rs.                                   *)
(***************************************************************************)
\* LabImage::coord_to_idx, 1-based
CoordToIdx(size, coord) == coord[1] + size[1] * coord[2] + 1

\* sp_refine's idx -> coord, for the 0-based idx of the parallel range
IdxToCoord(size, idx) == <<idx % size[1], idx \div size[1]>>

AllCoords(size) == {<<x, y>> : x \in 0 .. size[1] - 1, y \in 0 .. size[2] - 1}

InBounds(size, c) == c[1] >= 0 /\ c[2] >= 0 /\ c[1] < size[1] /\ c[2] < size[2]

\* ceil(a / b) for a >= 0, b > 0
CeilDiv(a, b) == (a + b - 1) \div b

\* main.rs:54-66: the greater side becomes max_side_size, the other one is
\* ceil(max_side_size / greater * smaller)
OutSize(size, max_side_size) ==
    IF size[1] >= size[2]
    THEN <<max_side_size, CeilDiv(max_side_size * size[2], size[1])>>
    ELSE <<CeilDiv(max_side_size * size[1], size[2]), max_side_size>>

\* Color::average_from
AverageFrom(image) == ColorDiv(ColorSum(image), Len(image))

\* SuperPixel::new
NewSuperPixel(image, size, coord, color) ==
    [coord |-> coord, palette_color |-> color, pixels |-> {},
     conditional_probability |-> <<ProbUnit \div 2, ProbUnit \div 2>>,
     sp_color |-> BLACK, original_coord |-> coord,
     original_color |-> image[CoordToIdx(size, coord)]]

\* main.rs:86-95: one superpixel per output cell, row-major, seeded at
\* ((x * Win) / Wout, (y * Hin) / Hout)
InitSuperPixels(image, isz, osz, color) ==
    [i \in 1 .. osz[1] * osz[2] |->
        NewSuperPixel(image, isz,
                      <<(((i - 1) % osz[1]) * isz[1]) \div osz[1],
                        (((i - 1) \div osz[1]) * isz[2]) \div osz[2]>>,
                      color)]

(***************************************************************************)
(* sp_refine, main.rs:321-464.                                             *)
(***************************************************************************)
\* SuperPixel::cost, as a count of 1/(ColorUnit * CostUnit) Lab units:
\* c_diff + 45 * sqrt(n / m) * spatial_diff
Cost(sp, image, isz, osz, coord) ==
    LET d2  == Dist2(image[CoordToIdx(isz, coord)], sp.palette_color)
        sd2 == (sp.coord[1] - coord[1]) * (sp.coord[1] - coord[1])
               + (sp.coord[2] - coord[2]) * (sp.coord[2] - coord[2])
        f   == SPATIAL_WEIGHT * ColorUnit * CostUnit
    IN  IF IsNaN(d2) THEN NaN
        ELSE ISqrt(d2 * CostUnit * CostUnit)
             + ISqrt((f * f * osz[1] * osz[2] * sd2) \div (isz[1] * isz[2]))

\* the 3x3 window row by row, each row from the left
D_COORDS_ROWS == << <<-1, -1>>, <<0, -1>>, <<1, -1>>, <<-1, 0>>, <<0, 0>>, <<1, 0>>,
                    <<-1, 1>>, <<0, 1>>, <<1, 1>> >>

\* the 3x3 window of main.rs:334-344, in the order the loop visits it
D_COORDS == << <<-1, -1>>, <<-1, 0>>, <<-1, 1>>, <<0, -1>>, <<0, 0>>, <<0, 1>>,
               <<1, -1>>, <<1, 0>>, <<1, 1>> >>

\* main.rs:333
SpCoord(isz, osz, coord) ==
    <<(coord[1] * osz[1]) \div isz[1], (coord[2] * osz[2]) \div isz[2]>>

\* main.rs:346-363: the loop over D_COORDS from position j on, carrying
\* best_cost and best_coord
RECURSIVE BestFrom(_, _, _, _, _, _, _, _)
BestFrom(sps, image, isz, osz, coord, j, best_cost, best_coord) ==
    IF j > Len(D_COORDS) THEN best_coord
    ELSE LET n_coord == <<SpCoord(isz, osz, coord)[1] + D_COORDS[j][1],
                          SpCoord(isz, osz, coord)[2] + D_COORDS[j][2]>>
         IN  IF InBounds(osz, n_coord)
             THEN LET new_cost == Cost(sps[CoordToIdx(osz, n_coord)], image, isz, osz, coord)
                  IN  IF FLess(new_cost, best_cost)
                      THEN BestFrom(sps, image, isz, osz, coord, j + 1, new_cost, n_coord)
                      ELSE BestFrom(sps, image, isz, osz, coord, j + 1, best_cost, best_coord)
             ELSE BestFrom(sps, image, isz, osz, coord, j + 1, best_cost, best_coord)

\* main.rs:346-347 and the loop: the output cell a pixel is given to
BestCoord(sps, image, isz, osz, coord) ==
    BestFrom(sps, image, isz, osz, coord, 1, F64_MAX, <<0, 0>>)

\* a task that, besides the insertion, moves the centre of the chosen
\* superpixel to the pixel it inserts
InsertPixelMoving(sps, image, isz, osz, coord) ==
    LET b == CoordToIdx(osz, BestCoord(sps, image, isz, osz, coord))
    IN  [sps EXCEPT ![b].pixels = @ \cup {coord}, ![b].coord = coord]

\* main.rs:365-367: the insertion of one pixel into the chosen owned set
InsertPixel(sps, image, isz, osz, coord) ==
    LET b == CoordToIdx(osz, BestCoord(sps, image, isz, osz, coord))
    IN  [sps EXCEPT ![b].pixels = @ \cup {coord}]

RECURSIVE SumCoords(_)
SumCoords(S) ==
    IF S = {} THEN <<0, 0>>
    ELSE LET c == CHOOSE x \in S : TRUE
             r == SumCoords(S \ {c})
         IN  <<c[1] + r[1], c[2] + r[2]>>

RECURSIVE SumColorsAt(_, _, _)
SumColorsAt(image, isz, S) ==
    IF S = {} THEN BLACK
    ELSE LET c == CHOOSE x \in S : TRUE
         IN  ColorAdd(image[CoordToIdx(isz, c)], SumColorsAt(image, isz, S \ {c}))

\* an update_position that leaves the centre of a superpixel without pixels
\* where the last pass put it
UpdatePositionKeep(sp) ==
    IF Cardinality(sp.pixels) = 0
    THEN sp
    ELSE [sp EXCEPT !.coord = <<SumCoords(sp.pixels)[1] \div Cardinality(sp.pixels),
                                SumCoords(sp.pixels)[2] \div Cardinality(sp.pixels)>>]

\* SuperPixel::update_position
UpdatePosition(sp) ==
    IF Cardinality(sp.pixels) = 0
    THEN [sp EXCEPT !.coord = sp.original_coord]
    ELSE [sp EXCEPT !.coord = <<SumCoords(sp.pixels)[1] \div Cardinality(sp.pixels),
                                SumCoords(sp.pixels)[2] \div Cardinality(sp.pixels)>>]

\* SuperPixel::update_sp_color
UpdateSpColor(sp, image, isz) ==
    IF Cardinality(sp.pixels) = 0
    THEN [sp EXCEPT !.sp_color = sp.original_color]
    ELSE [sp EXCEPT !.sp_color =
              ColorDiv(SumColorsAt(image, isz, sp.pixels), Cardinality(sp.pixels))]

\* the four neighbours of main.rs:382-387
D_COORDS4 == << <<0, 1>>, <<0, -1>>, <<-1, 0>>, <<1, 0>> >>

Neighbours(osz, cell, ds) ==
    {j \in 1 .. Len(ds) : InBounds(osz, <<cell[1] + ds[j][1], cell[2] + ds[j][2]>>)}

NeighbourIdx(osz, cell, ds, j) == CoordToIdx(osz, <<cell[1] + ds[j][1], cell[2] + ds[j][2]>>)

\* main.rs:380-412: the Laplacian smoothing of one cell.  (0.4 * new / n +
\* 0.6 * coord) is computed exactly and truncated as as_uvec2 truncates; with
\* no neighbour the f64 is 0/0 = NaN, which as_uvec2 casts to 0.
LaplacianCoord(sps, osz, cell) ==
    LET nb  == Neighbours(osz, cell, D_COORDS4)
        n   == Cardinality(nb)
        new == SumCoords({sps[NeighbourIdx(osz, cell, D_COORDS4, j)].coord : j \in nb})
        own == sps[CoordToIdx(osz, cell)].coord
    IN  IF n = 0 THEN <<0, 0>>
        ELSE <<(4 * new[1] + 6 * own[1] * n) \div (10 * n),
               (4 * new[2] + 6 * own[2] * n) \div (10 * n)>>

\* main.rs:418-458: the bilateral colour smoothing of one cell; the weight
\* exp(-|dL|) is a count of 1/WeightUnit
BilateralColor(sps, osz, cell) ==
    LET nb   == Neighbours(osz, cell, D_COORDS)
        own  == sps[CoordToIdx(osz, cell)].sp_color
        w(j) == ExpNeg(Abs(own[1] - sps[NeighbourIdx(osz, cell, D_COORDS, j)].sp_color[1]),
                       ColorUnit)
        n    == SumSeq([j \in 1 .. Len(D_COORDS) |-> IF j \in nb THEN w(j) ELSE 0])
        avg  == ColorDiv(ColorSum([j \in 1 .. Len(D_COORDS) |->
                             IF j \in nb
                             THEN ColorScale(sps[NeighbourIdx(osz, cell, D_COORDS, j)].sp_color,
                                             w(j))
                             ELSE BLACK]),
                         n)
    IN  ColorDiv(ColorAdd(own, avg), 2)

\* main.rs:322-324
ClearPixelsNot(sps) == sps

ClearPixels(sps) == [i \in DOMAIN sps |-> [sps[i] EXCEPT !.pixels = {}]]

\* main.rs:370-373
UpdateAll(sps, image, isz) ==
    [i \in DOMAIN sps |-> UpdateSpColor(UpdatePosition(sps[i]), image, isz)]

\* main.rs:376-412: the loop over the cells from cell i on, row-major; the
\* centre of a cell is read from sps and its new centre written to
\* new_coords
RECURSIVE LaplacianPass(_, _, _, _)
LaplacianPass(sps, osz, i, new_coords) ==
    IF i > Len(sps) THEN new_coords
    ELSE LaplacianPass(sps, osz, i + 1,
                       [new_coords EXCEPT
                           ![i] = LaplacianCoord(sps, osz, IdxToCoord(osz, i - 1))])

\* a bilateral pass that writes the new mean colour of a cell into the
\* superpixel at once, so that the cells after it read the smoothed value
RECURSIVE BilateralPassInPlace(_, _, _, _)
BilateralPassInPlace(sps, osz, i, new_colors) ==
    IF i > Len(sps) THEN new_colors
    ELSE LET c == BilateralColor(sps, osz, IdxToCoord(osz, i - 1))
         IN  BilateralPassInPlace([sps EXCEPT ![i].sp_color = c], osz, i + 1,
                                  [new_colors EXCEPT ![i] = c])

\* main.rs:415-458: the loop over the cells from cell i on, row-major; the
\* mean colours are read from sps and the new one written to new_colors
RECURSIVE BilateralPass(_, _, _, _)
BilateralPass(sps, osz, i, new_colors) ==
    IF i > Len(sps) THEN new_colors
    ELSE BilateralPass(sps, osz, i + 1,
                       [new_colors EXCEPT
                           ![i] = BilateralColor(sps, osz, IdxToCoord(osz, i - 1))])

\* main.rs:460-463: the two buffers are committed
SmoothCommit(sps, new_coords, new_colors) ==
    [i \in DOMAIN sps |-> [sps[i] EXCEPT !.coord = new_coords[i],
                                         !.sp_color = new_colors[i]]]

\* main.rs:375-463: the Laplacian pass into new_coords (all UVec2::ZERO at
\* first), the bilateral pass into new_colors (all Color::BLACK at first),
\* then the commit
SmoothAll(sps, osz) ==
    SmoothCommit(sps,
                 LaplacianPass(sps, osz, 1, [i \in DOMAIN sps |-> <<0, 0>>]),
                 BilateralPass(sps, osz, 1, [i \in DOMAIN sps |-> BLACK]))

\* main.rs:326-368 run for the pixels idx .. m-1 in index order
RECURSIVE AssignFrom(_, _, _, _, _)
AssignFrom(sps, image, isz, osz, idx) ==
    IF idx >= isz[1] * isz[2] THEN sps
    ELSE AssignFrom(InsertPixel(sps, image, isz, osz, IdxToCoord(isz, idx)),
                    image, isz, osz, idx + 1)

\* sp_refine as a whole, its parallel loop run in index order
SpRefine(sps, image, isz, osz) ==
    SmoothAll(UpdateAll(AssignFrom(ClearPixels(sps), image, isz, osz, 0), image, isz), osz)

(***************************************************************************)
(* associate and SuperPixel::normalize_probs, main.rs:255-296, 466-491.    *)
(* A palette entry is [c |-> colour, p |-> marginal]; the marginal is a    *)
(* count of 1/MargUnit, with MargUnit = 2 * ProbUnit * (number of          *)
(* superpixels), so that p(s) * P(k|s) and the halving of expand are exact.*)
(***************************************************************************)
MargUnit(n) == 2 * ProbUnit * n

\* Color::condit_prob: probability * e^(-distance(sp_color, color) / t),
\* the exponent floored: floor(sqrt(d2) * TempUnit / (ColorUnit * t))
CondProb(color, probability, sp_color, temp) ==
    IF IsNaN(Dist2(sp_color, color)) \/ IsNaN(temp) THEN NaN
    ELSE FMul(probability,
              ExpNegFloor(ISqrt((Dist2(sp_color, color) * TempUnit * TempUnit)
                                \div (ColorUnit * ColorUnit * temp * temp))))

\* main.rs:262-272: the index whose colour ends up in palette_color, 0 when
\* no entry compares equal to hi (every entry NaN).  The loop overwrites
\* palette_color at every entry equal to hi, so the last one stays.
AssignedIndex(u) ==
    LET hi   == FMaxSeq(u)
        hits == {i \in DOMAIN u : ~IsNaN(u[i]) /\ ~IsNaN(hi) /\ u[i] = hi}
    IN  IF hits = {} THEN 0 ELSE CHOOSE i \in hits : \A j \in hits : j <= i

\* main.rs:261, 274: every entry divided by the sum of the entries
Normalized(u) == [i \in DOMAIN u |-> FDiv(u[i], FSum(u), ProbUnit)]

\* SuperPixel::normalize_probs (the loop of main.rs:277-295 changes nothing)
NormalizeProbs(sp, pal) ==
    LET u == sp.conditional_probability
    IN  [sp EXCEPT !.palette_color = IF AssignedIndex(u) = 0 THEN @
                                     ELSE pal[AssignedIndex(u)].c,
                   !.conditional_probability = Normalized(u)]

\* main.rs:473-479 for one superpixel
AssociateSp(sp, pal, temp) ==
    NormalizeProbs(
        [sp EXCEPT !.conditional_probability =
            [i \in 1 .. Len(pal) |-> CondProb(pal[i].c, pal[i].p, sp.sp_color, temp)]],
        pal)

\* the marginal of entry i without the factor p(s) of main.rs:487
MarginalUnweighted(sps, i) ==
    FSum([s \in 1 .. Len(sps) |-> FMul(sps[s].conditional_probability[i], 2 * Len(sps))])

\* main.rs:481-490: the marginal of entry i, the sum over the superpixels of
\* P(i|s) * p(s) with p(s) = 1/n, which is 2 * P(i|s) counts of 1/MargUnit
Marginal(sps, i) ==
    FSum([s \in 1 .. Len(sps) |-> FMul(sps[s].conditional_probability[i], 2)])

\* associate: the new superpixels
AssociateSps(sps, pal, temp) == [s \in DOMAIN sps |-> AssociateSp(sps[s], pal, temp)]

\* associate: the new palette, from the superpixels the first loop left
AssociatePalette(nsps, pal) == [i \in DOMAIN pal |-> [pal[i] EXCEPT !.p = Marginal(nsps, i)]]

(***************************************************************************)
(* palette_refine, main.rs:493-510.                                        *)
(***************************************************************************)
\* main.rs:498-503: the sum over the superpixels of
\* sp_color * P(i|s) * p(s) / marginal
NewColor(sps, pal, i) ==
    IF \E s \in DOMAIN sps : IsNaN(sps[s].conditional_probability[i]) THEN NaNColor
    ELSE ColorDiv(ColorSum([s \in 1 .. Len(sps) |->
                      ColorScale(sps[s].sp_color, 2 * sps[s].conditional_probability[i])]),
                  pal[i].p)

RefinedPalette(sps, pal) == [i \in DOMAIN pal |-> [pal[i] EXCEPT !.c = NewColor(sps, pal, i)]]

\* the value palette_refine returns: the sum of the distances moved
TotalChange(sps, pal) ==
    FSum([i \in 1 .. Len(pal) |-> Distance(pal[i].c, NewColor(sps, pal, i))])

(***************************************************************************)
(* The convergence detector of main, main.rs:125-152.  total_change is a   *)
(* count of 1/ColorUnit; a variance is a count of 1/(10000 * ColorUnit).   *)
(***************************************************************************)
\* main.rs:125-129 and 140-144: pop the front at 100 entries, push the back
PushRing(ring, x) ==
    IF Len(ring) = RING_LEN THEN Append(Tail(ring), x) ELSE Append(ring, x)

\* the running sum without the subtraction of the popped entry
RunningAfterNoPop(ring, run, x) == FAdd(run, x)

\* main.rs:125-130 and 140-145: the running sum after the pop and the push
RunningAfter(ring, run, x) ==
    FAdd(IF Len(ring) = RING_LEN THEN FSub(run, Head(ring)) ELSE run, x)

\* main.rs:132-138: sqrt(sum((mean - change)^2)) / 100 with mean = run / 100,
\* which is sqrt(sum((run - 100 * change)^2)) / 10000
Variance(ring, run) ==
    IF IsNaN(run) \/ \E i \in DOMAIN ring : IsNaN(ring[i]) THEN NaN
    ELSE ISqrt(SumSeq([i \in 1 .. Len(ring) |->
                   (run - RING_LEN * ring[i]) * (run - RING_LEN * ring[i])]))

\* main.rs:147: |running_variance_avg / 100 - variance| < 0.001
VarianceCheck(rvavg, variance) ==
    ~IsNaN(rvavg) /\ ~IsNaN(variance)
    /\ Abs(rvavg - RING_LEN * variance) < RING_LEN * 10 * ColorUnit

\* the event that needs both conditions of main.rs:154
ConvergedBoth(tc, count) == FLess(tc, EPSILON_PALETTE) /\ count > VARIANCE_PASSES

\* main.rs:154: the convergence event
Converged(tc, count) == FLess(tc, EPSILON_PALETTE) \/ count > VARIANCE_PASSES

(***************************************************************************)
(* expand, main.rs:512-573.  Cluster indices are 0-based as in the code.   *)
(***************************************************************************)
FHalf(x) == IF IsNaN(x) THEN NaN ELSE x \div 2

\* main.rs:524: c1.distance(c2) > EPSILON_CLUSTER
ShouldSplit(c1, c2) ==
    ~IsNaN(Dist2(c1, c2))
    /\ Dist2(c1, c2) * EPSILON_CLUSTER_DEN * EPSILON_CLUSTER_DEN
       > EPSILON_CLUSTER_NUM * EPSILON_CLUSTER_NUM * ColorUnit * ColorUnit

\* main.rs:539-548: |p - q| < EPSILON_CLUSTER for two marginals
SiblingsClose(p, q, n) ==
    ~IsNaN(p) /\ ~IsNaN(q)
    /\ Abs(p - q) * EPSILON_CLUSTER_DEN < EPSILON_CLUSTER_NUM * MargUnit(n)

\* the split of cluster i with the copies taken before the halving of
\* main.rs:527-528
SplitClusterCopyFirst(st, i) ==
    LET x    == st.clusters[i][1] + 1
        y    == st.clusters[i][2] + 1
        pal1 == [st.palette EXCEPT ![x].p = FHalf(@), ![y].p = FHalf(@)]
        pal2 == Append(Append(pal1, st.palette[x]), st.palette[y])
    IN  [st EXCEPT !.k = @ + 1,
                   !.palette = pal2,
                   !.clusters = Append([st.clusters EXCEPT
                                           ![i] = <<st.clusters[i][1], Len(pal2) - 2>>],
                                       <<st.clusters[i][2], Len(pal2) - 1>>),
                   !.split = @ \cup {i}]

\* the split of cluster i with the two copies exchanged: cluster i gets
\* the copy of its second entry and the new cluster the copy of the first
SplitClusterCrossed(st, i) ==
    LET x    == st.clusters[i][1] + 1
        y    == st.clusters[i][2] + 1
        pal1 == [st.palette EXCEPT ![x].p = FHalf(@), ![y].p = FHalf(@)]
        pal2 == Append(Append(pal1, pal1[x]), pal1[y])
    IN  [st EXCEPT !.k = @ + 1,
                   !.palette = pal2,
                   !.clusters = Append([st.clusters EXCEPT
                                           ![i] = <<st.clusters[i][1], Len(pal2) - 1>>],
                                       <<st.clusters[i][2], Len(pal2) - 2>>),
                   !.split = @ \cup {i}]

\* the split of cluster i with the two cluster writes of main.rs:536-537 in
\* the other order: the new cluster reads clusters[i][1] after clusters[i]
\* was overwritten
SplitClusterStale(st, i) ==
    LET x    == st.clusters[i][1] + 1
        y    == st.clusters[i][2] + 1
        pal1 == [st.palette EXCEPT ![x].p = FHalf(@), ![y].p = FHalf(@)]
        pal2 == Append(Append(pal1, pal1[x]), pal1[y])
    IN  [st EXCEPT !.k = @ + 1,
                   !.palette = pal2,
                   !.clusters = Append([st.clusters EXCEPT
                                           ![i] = <<st.clusters[i][1], Len(pal2) - 2>>],
                                       <<Len(pal2) - 2, Len(pal2) - 1>>),
                   !.split = @ \cup {i}]

\* main.rs:525-537: the split of cluster i (1-based position in cl)
SplitCluster(st, i) ==
    LET x    == st.clusters[i][1] + 1
        y    == st.clusters[i][2] + 1
        pal1 == [st.palette EXCEPT ![x].p = FHalf(@), ![y].p = FHalf(@)]
        pal2 == Append(Append(pal1, pal1[x]), pal1[y])
    IN  [st EXCEPT !.k = @ + 1,
                   !.palette = pal2,
                   !.clusters = Append([st.clusters EXCEPT
                                           ![i] = <<st.clusters[i][1], Len(pal2) - 2>>],
                                       <<st.clusters[i][2], Len(pal2) - 1>>),
                   !.split = @ \cup {i}]

\* main.rs:519-550: the loop over the clusters i .. bound; get_many_mut
\* panics on equal or out-of-range indices, the assertions on distant or NaN
\* sibling marginals
RECURSIVE SplitLoop(_, _, _, _)
SplitLoop(st, i, bound, n) ==
    IF i > bound \/ st.panicked THEN st
    ELSE LET x == st.clusters[i][1] + 1
             y == st.clusters[i][2] + 1
         IN  IF x = y \/ x > Len(st.palette) \/ y > Len(st.palette)
             THEN [st EXCEPT !.panicked = TRUE]
             ELSE IF ShouldSplit(st.palette[x].c, st.palette[y].c)
             THEN LET nx == SplitCluster(st, i)
                      a  == nx.clusters[i]
                      b  == nx.clusters[Len(nx.clusters)]
                  IN  IF SiblingsClose(nx.palette[a[1] + 1].p, nx.palette[a[2] + 1].p, n)
                         /\ SiblingsClose(nx.palette[b[1] + 1].p, nx.palette[b[2] + 1].p, n)
                      THEN SplitLoop(nx, i + 1, bound, n)
                      ELSE [nx EXCEPT !.panicked = TRUE]
             ELSE SplitLoop(st, i + 1, bound, n)

\* expand without the replacement of the palette at main.rs:564-565
CollapseKeep(st) == [st EXCEPT !.collapsed = TRUE]

\* a collapse that gives the new entry the marginal of the first of the two
\* entries only
CollapseFirstMarginal(st) ==
    [st EXCEPT
        !.palette = [i \in 1 .. st.k |->
                        [c |-> ColorDiv(ColorAdd(st.palette[st.clusters[i][1] + 1].c,
                                                 st.palette[st.clusters[i][2] + 1].c), 2),
                         p |-> st.palette[st.clusters[i][1] + 1].p]],
        !.clusters = [i \in 1 .. st.k |-> <<i - 1, 0>>],
        !.collapsed = TRUE]

\* main.rs:552-566
Collapse(st) ==
    [st EXCEPT
        !.palette = [i \in 1 .. st.k |->
                        [c |-> ColorDiv(ColorAdd(st.palette[st.clusters[i][1] + 1].c,
                                                 st.palette[st.clusters[i][2] + 1].c), 2),
                         p |-> FAdd(st.palette[st.clusters[i][1] + 1].p,
                                    st.palette[st.clusters[i][2] + 1].p)]],
        !.clusters = [i \in 1 .. st.k |-> <<i - 1, 0>>],
        !.collapsed = TRUE]

\* the (a, b) part of a Lab 3-vector
ProjectAB(d) == <<d[2], d[3]>>

\* DVec3::truncate
Truncate(d) == <<d[1], d[2]>>

\* main.rs:567-572: the loop over the clusters i .. kk
RECURSIVE PerturbLoop(_, _, _, _, _)
PerturbLoop(pal, cl, i, kk, d) ==
    IF i > kk THEN pal
    ELSE PerturbLoop([pal EXCEPT ![cl[i][2] + 1].c = Perturb(@, d)], cl, i + 1, kk, d)

PerturbSeconds(st, d) ==
    [st EXCEPT !.palette = PerturbLoop(st.palette, st.clusters, 1, st.k, d)]

\* expand with a collapse after every split loop, whatever k
ExpandCollapseAlways(cl, pal, kk, k_max, d, n) ==
    LET st0 == [clusters |-> cl, palette |-> pal, k |-> kk, split |-> {},
                collapsed |-> FALSE, panicked |-> FALSE]
        st1 == SplitLoop(st0, 1, Min(kk, k_max), n)
    IN  IF st1.panicked THEN st1 ELSE Collapse(st1)

\* expand
Expand(cl, pal, kk, k_max, d, n) ==
    LET st0 == [clusters |-> cl, palette |-> pal, k |-> kk, split |-> {},
                collapsed |-> FALSE, panicked |-> FALSE]
        st1 == SplitLoop(st0, 1, Min(kk, k_max), n)
    IN  IF st1.panicked THEN st1
        ELSE IF st1.k >= k_max THEN Collapse(st1)
        ELSE PerturbSeconds(st1, d)

(***************************************************************************)
(* The floss snapper of main, main.rs:170-202.  dmc_colors stands for the  *)
(* catalog of dmc_colors.json, already converted to Lab.                   *)
(***************************************************************************)
dmc_colors == << <<0, 0, 0>>, <<12, 0, 0>>, <<24, 0, 0>>, <<24, 12, 12>> >>

\* main.rs:172: palette_color * (1.0, 1.1, 1.1), every channel times 10
Tilted10(c) == IF ColorIsNaN(c) THEN NaNColor ELSE <<10 * c[1], 11 * c[2], 11 * c[3]>>

\* the loop over the catalog with `<=` for `<`: among equally near entries
\* the last one stays
RECURSIVE NearestFromLast(_, _, _, _)
NearestFromLast(c10, j, min_distance, min_color) ==
    IF j > Len(dmc_colors) THEN min_color
    ELSE LET distance == Dist2(ColorScale(dmc_colors[j], 10), c10)
         IN  IF FLess(distance, min_distance) \/ distance = min_distance
             THEN NearestFromLast(c10, j + 1, distance, j)
             ELSE NearestFromLast(c10, j + 1, min_distance, min_color)

\* main.rs:177-188: the loop over the catalog from entry j on
RECURSIVE NearestFrom(_, _, _, _)
NearestFrom(c10, j, min_distance, min_color) ==
    IF j > Len(dmc_colors) THEN min_color
    ELSE LET distance == Dist2(ColorScale(dmc_colors[j], 10), c10)
         IN  IF FLess(distance, min_distance)
             THEN NearestFrom(c10, j + 1, distance, j)
             ELSE NearestFrom(c10, j + 1, min_distance, min_color)

\* the catalog entry (its position) an assigned colour is snapped to
Snap(c) == NearestFrom(Tilted10(c), 1, F64_MAX, 1)

(***************************************************************************)
(* Inputs: the images, and what the PCA of image.rs:20-35 returns on them. *)
(* The pixels of an input image differ in one Lab channel only, so that    *)
(* the first principal axis is that channel's unit vector (of either sign) *)
(* and the explained variance is the sample variance of the levels.        *)
(***************************************************************************)
Sizes == {<<2, 1>>, <<2, 2>>}

Levels == {0, 24}

Base == <<8, 4, 4>>

AxisColor(axis, level) == [j \in 1 .. 3 |-> IF j = axis THEN Base[j] + level ELSE Base[j]]

ImagesOf(size, axis) ==
    {[i \in 1 .. size[1] * size[2] |-> AxisColor(axis, lv[i])] :
        lv \in [1 .. size[1] * size[2] -> Levels]}

\* n * sum(x^2) - sum(x)^2 of one channel
ScatterN(image, axis) ==
    Len(image) * SumSeq([i \in 1 .. Len(image) |-> image[i][axis] * image[i][axis]])
    - SumSeq([i \in 1 .. Len(image) |-> image[i][axis]])
      * SumSeq([i \in 1 .. Len(image) |-> image[i][axis]])

\* main.rs:79: 1.1 * explained variance, the variance being
\* scatter / (n * (n - 1)) squared channel units
InitialT(image, axis) ==
    (11 * TempUnit * ScatterN(image, axis))
    \div (10 * Len(image) * (Len(image) - 1) * ColorUnit * ColorUnit)

\* main.rs:74-78: the first component times 1.5
Delta(axis, sign) == [j \in 1 .. 3 |-> IF j = axis THEN sign * ((3 * ColorUnit) \div 2) ELSE 0]

EmptyLog == [called |-> FALSE, split |-> {}, collapsed |-> FALSE]

\* the composer is another program: its variables are idle in the pixelizer
TileIdle ==
    /\ rgba = <<>>
    /\ sub_images = <<>>
    /\ total_pages = 0
    /\ overlay = <<>>
    /\ top = 0
    /\ page_idx = 0
    /\ row_idx = 0
    /\ col_idx = 0
    /\ color_idx = 0
    /\ pages = <<>>

CatalogIdle ==
    /\ dmc_json = <<>>
    /\ dmc_vec = <<>>
    /\ floss_map = <<>>

FontIdle ==
    /\ glyphs = {}
    /\ symbol_font_map = <<>>

PdfIdle ==
    /\ pdf_img = <<>>
    /\ pdf_size = <<0, 0>>
    /\ colors = <<>>
    /\ color_symbol_map = <<>>
    /\ TileIdle
    /\ CatalogIdle
    /\ FontIdle

\* main.rs:47-66, 106-107: the image, the output size and the raster
InitImage(size, image, side) ==
    /\ in_size = size
    /\ img = image
    /\ out_size = OutSize(size, side)
    /\ output = [i \in 1 .. OutSize(size, side)[1] * OutSize(size, side)[2] |-> 0]
    /\ saved = FALSE
    /\ pending = {}
    /\ PdfIdle

\* main.rs:108-112, and the first total_change
InitDetector ==
    /\ running_average = 0
    /\ prev_changes = <<>>
    /\ running_variance_avg = 0
    /\ prev_variances = <<>>
    /\ variance_check_passed_count = 0
    /\ total_change = 0

\* main.rs:97-99: the first cluster and its two palette entries
InitPalette(image, d, n) ==
    << [c |-> AverageFrom(image), p |-> MargUnit(n) \div 2],
       [c |-> Perturb(AverageFrom(image), Truncate(d)), p |-> MargUnit(n) \div 2] >>

\* main.rs:70-80, 97-99
InitOptimizer(image, axis, sign, n, cc) ==
    /\ delta = Delta(axis, sign)
    /\ t = InitialT(image, axis)
    /\ k = 1
    /\ color_count = cc
    /\ clusters = << <<0, 1>> >>
    /\ palette = InitPalette(image, Delta(axis, sign), n)
    /\ expand_log = EmptyLog

\* main.rs:44-114, but for the superpixels
InitLocals(size, image, axis, sign, side, cc) ==
    /\ InitImage(size, image, side)
    /\ InitDetector
    /\ InitOptimizer(image, axis, sign, OutSize(size, side)[1] * OutSize(size, side)[2], cc)

\* main.rs:44-114
InitMain(size, image, axis, sign, side, cc) ==
    /\ InitLocals(size, image, axis, sign, side, cc)
    /\ super_pixels = InitSuperPixels(image, size, OutSize(size, side), AverageFrom(image))

Init ==
    /\ pc = "while"
    /\ \E size \in Sizes, axis \in 1 .. 3, sign \in {-1, 1},
          side \in 1 .. MaxSide, cc \in 1 .. MaxColorCount :
          \E image \in ImagesOf(size, axis) :
             InitMain(size, image, axis, sign, side, cc)

(***************************************************************************)
(* main's loop, main.rs:116-211, one action per pass.                      *)
(***************************************************************************)
NumSp == out_size[1] * out_size[2]

\* main.rs:116: while t > T_FINAL; past the loop main returns Ok(())
LoopTest ==
    /\ pc = "while"
    /\ pc' = IF t > T_FINAL THEN "sp_refine" ELSE "done"
    /\ UNCHANGED <<imgVars, super_pixels, pending, optVars, detVars, outVars, expand_log, pdfVars>>

\* main.rs:119
SpRefineStep ==
    /\ pc = "sp_refine"
    /\ super_pixels' = SpRefine(super_pixels, img, in_size, out_size)
    /\ pc' = "associate"
    /\ UNCHANGED <<imgVars, pending, optVars, detVars, outVars, expand_log, pdfVars>>

\* main.rs:121
AssociateStep ==
    /\ pc = "associate"
    /\ super_pixels' = AssociateSps(super_pixels, palette, t)
    /\ palette' = AssociatePalette(super_pixels', palette)
    /\ pc' = "palette_refine"
    /\ UNCHANGED <<imgVars, pending, clusters, k, t, delta, color_count, detVars, outVars,
                   expand_log, pdfVars>>

\* main.rs:123
PaletteRefineStep ==
    /\ pc = "palette_refine"
    /\ total_change' = TotalChange(super_pixels, palette)
    /\ palette' = RefinedPalette(super_pixels, palette)
    /\ pc' = "cool"
    /\ UNCHANGED <<imgVars, super_pixels, pending, clusters, k, t, delta, color_count,
                   running_average, prev_changes, running_variance_avg, prev_variances,
                   variance_check_passed_count, outVars, expand_log, pdfVars>>

\* main.rs:125-166: the detector, and on a convergence event the cooling and
\* the call of expand
CoolStep ==
    /\ pc = "cool"
    /\ prev_changes' = PushRing(prev_changes, total_change)
    /\ running_average' = RunningAfter(prev_changes, running_average, total_change)
    /\ LET variance == Variance(prev_changes', running_average')
           count    == IF VarianceCheck(running_variance_avg', variance)
                       THEN variance_check_passed_count + 1 ELSE 0
       IN  /\ prev_variances' = PushRing(prev_variances, variance)
           /\ running_variance_avg' = RunningAfter(prev_variances, running_variance_avg, variance)
           /\ IF Converged(total_change, count)
              THEN /\ variance_check_passed_count' = 0
                   /\ t' = (t * ALPHA_NUM) \div ALPHA_DEN
                   /\ IF k < color_count
                      THEN LET r == Expand(clusters, palette, k, color_count,
                                           Truncate(delta), NumSp)
                           IN  /\ clusters' = r.clusters
                               /\ palette' = r.palette
                               /\ k' = r.k
                               /\ expand_log' = [called |-> TRUE, split |-> r.split,
                                                 collapsed |-> r.collapsed]
                               /\ pc' = IF r.panicked THEN "panic" ELSE "snap"
                      ELSE /\ UNCHANGED <<clusters, palette, k>>
                           /\ expand_log' = [expand_log EXCEPT !.called = FALSE, !.split = {}]
                           /\ pc' = "snap"
              ELSE /\ variance_check_passed_count' = count
                   /\ UNCHANGED <<t, clusters, palette, k>>
                   /\ expand_log' = [expand_log EXCEPT !.called = FALSE, !.split = {}]
                   /\ pc' = "snap"
    /\ UNCHANGED <<imgVars, super_pixels, pending, delta, color_count, total_change, outVars,
                   pdfVars>>

\* main.rs:168-204: snap every superpixel and save the raster
SnapStep ==
    /\ pc = "snap"
    /\ output' = [i \in 1 .. Len(super_pixels) |-> Snap(super_pixels[i].palette_color)]
    /\ saved' = TRUE
    /\ pc' = "while"
    /\ UNCHANGED <<imgVars, super_pixels, pending, optVars, detVars, expand_log, pdfVars>>

Next == LoopTest \/ SpRefineStep \/ AssociateStep \/ PaletteRefineStep \/ CoolStep \/ SnapStep

Spec == Init /\ [][Next]_vars

(***************************************************************************)
(* sp_refine on its own, main.rs:321-464, with the tasks of its parallel   *)
(* loop (main.rs:326-368) run one at a time in any order.  The pass starts *)
(* from the superpixels a previous pass can have left: owned sets that are *)
(* stale, and assigned colours that are finite or NaN.                     *)
(***************************************************************************)
PaletteColors == {AxisColor(1, 0), AxisColor(1, 24), NaNColor}

\* the assigned colours of n superpixels: one colour at the odd positions
\* and one at the even positions
PalettePatterns(n) ==
    {[i \in 1 .. n |-> IF i % 2 = 1 THEN c1 ELSE c2] :
        c1 \in PaletteColors, c2 \in PaletteColors}

InitRefine ==
    /\ pc = "sp_refine"
    /\ \E size \in Sizes, side \in 1 .. MaxSide, cc \in 1 .. MaxColorCount :
          \E image \in ImagesOf(size, 1) :
             InitLocals(size, image, 1, 1, side, cc)
    /\ \E pat \in PalettePatterns(NumSp), stale \in {{}, AllCoords(in_size)} :
          super_pixels =
              [i \in 1 .. NumSp |->
                  [InitSuperPixels(img, in_size, out_size, BLACK)[i] EXCEPT
                      !.palette_color = pat[i],
                      !.pixels = IF i = NumSp THEN stale ELSE {}]]

\* main.rs:322-324: the owned sets are emptied, and the tasks are created
RefineClear ==
    /\ pc = "sp_refine"
    /\ super_pixels' = ClearPixels(super_pixels)
    /\ pending' = AllCoords(in_size)
    /\ pc' = "assign"
    /\ UNCHANGED <<imgVars, optVars, detVars, outVars, expand_log, pdfVars>>

\* main.rs:327-367: the task of one pixel
RefinePixel ==
    /\ pc = "assign"
    /\ \E coord \in pending :
          /\ super_pixels' = InsertPixel(super_pixels, img, in_size, out_size, coord)
          /\ pending' = pending \ {coord}
    /\ UNCHANGED <<imgVars, pc, optVars, detVars, outVars, expand_log, pdfVars>>

\* main.rs:370-463, once every task has run
RefineUpdate ==
    /\ pc = "assign"
    /\ pending = {}
    /\ super_pixels' = SmoothAll(UpdateAll(super_pixels, img, in_size), out_size)
    /\ pc' = "associate"
    /\ UNCHANGED <<imgVars, pending, optVars, detVars, outVars, expand_log, pdfVars>>

NextRefine == RefineClear \/ RefinePixel \/ RefineUpdate

SpecRefine == InitRefine /\ [][NextRefine]_vars

\* the superpixels that own a coordinate
Owners(coord) == {i \in DOMAIN super_pixels : coord \in super_pixels[i].pixels}

\* C1: after every sp_refine pass every input-pixel coordinate is in the
\* owned set of exactly one superpixel, and the owned sets hold nothing but
\* input-pixel coordinates, also when no candidate's cost is below the
\* initial best cost (every candidate's cost is NaN).
C1_OwnershipPartition ==
    pc = "associate" =>
        /\ \A coord \in AllCoords(in_size) : Cardinality(Owners(coord)) = 1
        /\ \A i \in DOMAIN super_pixels : super_pixels[i].pixels \subseteq AllCoords(in_size)

\* C1 witness: a pass has ended in which no candidate had a cost below the
\* initial best cost, over more than one superpixel and more than one pixel
C1_Witness ==
    /\ pc = "associate"
    /\ NumSp > 1
    /\ \A i \in DOMAIN super_pixels : ColorIsNaN(super_pixels[i].palette_color)
    /\ super_pixels[1].pixels = AllCoords(in_size)

(***************************************************************************)
(* associate and palette_refine on their own, main.rs:466-510: one pass    *)
(* over two superpixels from a palette of two entries with positive        *)
(* marginals, the colours and the temperature drawn from small sets.       *)
(***************************************************************************)
AssocColors == {AxisColor(1, 0), AxisColor(1, 4), AxisColor(1, 24)}

AssocTemps == {TempUnit + 1, 2 * TempUnit, 8 * TempUnit}

\* the marginal of the first entry, as a count of 1/4
AssocQuarters == {1, 2, 3}

InitAssoc ==
    /\ pc = "associate"
    /\ InitImage(<<2, 1>>, <<AxisColor(1, 0), AxisColor(1, 24)>>, 2)
    /\ InitDetector
    /\ \E c1 \in AssocColors, c2 \in AssocColors :
          super_pixels =
              [i \in 1 .. 2 |->
                  [InitSuperPixels(img, in_size, out_size, BLACK)[i] EXCEPT
                      !.sp_color = IF i = 1 THEN c1 ELSE c2]]
    /\ delta = Delta(1, 1)
    /\ t \in AssocTemps
    /\ k = 1
    /\ color_count \in 1 .. MaxColorCount
    /\ clusters = << <<0, 1>> >>
    /\ \E q \in AssocQuarters, p1 \in AssocColors, p2 \in AssocColors :
          palette = << [c |-> p1, p |-> (q * MargUnit(2)) \div 4],
                       [c |-> p2, p |-> ((4 - q) * MargUnit(2)) \div 4] >>
    /\ expand_log = EmptyLog

NextAssoc == AssociateStep \/ PaletteRefineStep

SpecAssoc == InitAssoc /\ [][NextAssoc]_vars

\* the sum of one superpixel's conditional probabilities is 1, up to the
\* rounding of the representation (less than one count an entry)
SumsToOne(sp) ==
    /\ \A i \in DOMAIN sp.conditional_probability : ~IsNaN(sp.conditional_probability[i])
    /\ Abs(SumSeq(sp.conditional_probability) - ProbUnit) <= Len(sp.conditional_probability)

\* the palette marginals sum to 1, up to the rounding of the representation
\* (two counts of 1/MargUnit a count of probability lost)
MarginalsSumToOne ==
    /\ \A i \in DOMAIN palette : ~IsNaN(palette[i].p)
    /\ Abs(SumSeq([i \in DOMAIN palette |-> palette[i].p]) - MargUnit(NumSp))
          <= 2 * Len(palette) * NumSp

C8_MarginalsSumToOne == pc = "palette_refine" => MarginalsSumToOne

\* C8 witness: an associate pass over more than one superpixel has just
\* recomputed the marginals of a palette of four entries, unequal ones
C8_Witness ==
    /\ pc = "palette_refine"
    /\ NumSp > 1
    /\ Len(palette) = 4
    /\ palette[1].p # palette[2].p
    /\ MarginalsSumToOne

(***************************************************************************)
(* The loop control of main on its own, main.rs:116-166: the three passes  *)
(* of an iteration are reduced to the value palette_refine returns, which  *)
(* is chosen here: below EPSILON_PALETTE (Quiet), above it (Loud), or NaN. *)
(* A NaN stays: a palette colour that is NaN makes every later distance,   *)
(* conditional probability, marginal and colour NaN.  Of the finite        *)
(* sequences the model keeps the ones that are Quiet and then Loud.        *)
(***************************************************************************)
Quiet == 0

Loud == 2 * EPSILON_PALETTE

DetTemps == {TempUnit \div 2, TempUnit + 1, 2 * TempUnit, 4 * TempUnit}

InitDet ==
    /\ pc = "while"
    /\ InitImage(<<2, 1>>, <<AxisColor(1, 0), AxisColor(1, 24)>>, 1)
    /\ InitDetector
    /\ super_pixels = InitSuperPixels(img, in_size, out_size, AverageFrom(img))
    /\ delta = Delta(1, 1)
    /\ t \in DetTemps
    /\ k = 1
    /\ color_count \in {1, 2}
    /\ clusters = << <<0, 1>> >>
    /\ palette = InitPalette(img, Delta(1, 1), 1)
    /\ expand_log = EmptyLog

\* main.rs:119-123: the value of `let total_change = palette_refine(..)`
DetRefine ==
    /\ pc = "sp_refine"
    /\ total_change' \in (IF IsNaN(total_change) THEN {NaN}
                          ELSE IF total_change = Loud THEN {Loud}
                          ELSE {Quiet, Loud, NaN})
    /\ pc' = "cool"
    /\ UNCHANGED <<imgVars, super_pixels, pending, optVars, running_average, prev_changes,
                   running_variance_avg, prev_variances, variance_check_passed_count,
                   outVars, expand_log, pdfVars>>

NextDet == LoopTest \/ DetRefine \/ CoolStep \/ SnapStep

SpecDet == InitDet /\ [][NextDet]_vars

\* main is one thread that always takes its next step: weak fairness of
\* every action.  CoolStep is enabled exactly when pc = "cool" and leaves
\* that position, so its weak fairness is []<>(pc # "cool").
SpecDetFair ==
    /\ SpecDet
    /\ WF_vars(LoopTest) /\ WF_vars(DetRefine) /\ WF_vars(SnapStep)
    /\ []<>(pc # "cool")

SYMBOLS ==
    <<
       65, 66, 67, 68, 69, 70, 71, 72, 73, 74, 75, 76, 77, 78, 79, 80,
       81, 82, 83, 84, 85, 86, 87, 88, 89, 90, 97, 98, 100, 101, 102,
       103, 104, 105, 106, 107, 109, 110, 111, 112, 113, 114, 116,
       117, 118, 119, 121, 49, 50, 51, 52, 53, 54, 55, 56, 57, 48,
       10102, 10103, 10104, 10105, 10106, 10107, 10108, 10109, 10110,
       10111, 10112, 10113, 10114, 10115, 10116, 10117, 10118, 10119,
       10120, 10121, 126, 33, 64, 35, 36, 37, 38, 42, 43, 61, 9991,
       9992, 9993, 9998, 10002, 10003, 10006, 10012, 10018, 10021,
       10022, 10025, 10034, 10037, 10041, 10042, 10044, 10046, 10047,
       10048, 10049, 10052, 10056, 10061, 10065, 10070, 10082, 10084,
       10086, 10132, 10136, 10146, 10149, 10162, 10163, 10170, 10174,
       9682, 9680, 9677, 9676, 9673, 9672, 9636, 9639, 9670, 9671,
       9684, 9687, 9688, 8984, 9086, 9167, 9253, 9705, 9730, 9752,
       10224, 10226, 10228, 10496, 10500, 10514, 10521, 10525, 10529,
       10535, 10548, 10553, 10571, 10576, 10621, 10625, 10626, 10634,
       10644, 10651, 10677, 10678, 10817, 10680, 10681, 10832, 10683,
       10684, 10686, 10688, 10692, 10694, 10822, 10828, 10830, 10701,
       10705, 10710, 10716, 10717, 10718, 10722, 10725, 10728, 10731,
       10732, 10734, 10738, 10752, 10753, 10759, 10762, 10766, 10803,
       10807, 10815
    >>

\* Rgb([255, 255, 255])
WHITE == 0

\* floss_map of pdfgen.rs:125: the floss id of a catalog colour.  The
\* catalog file is not among the sources: here colour c has the floss id
\* (37 * c) % 211, which differs from colour to colour and is not monotonic.
FlossOf(c) == (37 * c) % 211

\* the non-white colours of a raster
UsedColors(raster) == {raster[i] : i \in DOMAIN raster} \ {WHITE}

\* pdfgen.rs:170-176: the frequency of a colour
Frequency(raster, c) == Cardinality({i \in DOMAIN raster : raster[i] = c})

\* pdfgen.rs:186-190: the Vec of (color, freq, floss) sorted by floss.  The
\* colours are sorted around one of them, the ones of a smaller floss id
\* before it and the other ones after it
RECURSIVE SortedByFloss(_, _)
SortedByFloss(raster, S) ==
    IF S = {} THEN <<>>
    ELSE LET c == CHOOSE x \in S : TRUE
             below == {y \in S \ {c} : FlossOf(y) < FlossOf(c)}
         IN  SortedByFloss(raster, below)
             \o <<[color |-> c, freq |-> Frequency(raster, c), floss |-> FlossOf(c)]>>
             \o SortedByFloss(raster, (S \ {c}) \ below)

\* the raster of an image that uses the first n catalog colours, the first
\* one twice, and has white pixels
RasterOf(n) == <<WHITE>> \o [i \in 1 .. n |-> i] \o (IF n > 0 THEN <<1, WHITE>> ELSE <<>>)

InitPdf ==
    /\ pc = "pdf_colors"
    /\ pdf_img \in {RasterOf(n) : n \in 0 .. MaxUsed}
    /\ pdf_size = <<Len(pdf_img), 1>>
    /\ colors = <<>>
    /\ color_symbol_map = <<>>
    /\ TileIdle
    /\ CatalogIdle
    /\ FontIdle
    /\ in_size = <<2, 1>>
    /\ img = <<AxisColor(1, 0), AxisColor(1, 24)>>
    /\ out_size = <<1, 1>>
    /\ output = <<0>>
    /\ saved = FALSE
    /\ pending = {}
    /\ InitDetector
    /\ InitOptimizer(img, 1, 1, 1, 1)
    /\ super_pixels = InitSuperPixels(img, in_size, out_size, AverageFrom(img))

\* pdfgen.rs:167-190
PdfColors ==
    /\ pc = "pdf_colors"
    /\ colors' = SortedByFloss(pdf_img, UsedColors(pdf_img))
    /\ pc' = "pdf_symbols"
    /\ UNCHANGED <<imgVars, super_pixels, pending, optVars, detVars, outVars, expand_log,
                   pdf_img, color_symbol_map, tileVars, catalogVars, fontVars>>

\* pdfgen.rs:192-197: one element of the enumeration; SYMBOLS[idx] panics
\* when idx is not an index of the alphabet
PdfSymbol ==
    /\ pc = "pdf_symbols"
    /\ LET idx == Cardinality(DOMAIN color_symbol_map)
       IN  /\ idx < Len(colors)
           /\ IF idx >= Len(SYMBOLS)
              THEN /\ pc' = "pdf_panic"
                   /\ UNCHANGED color_symbol_map
              ELSE /\ color_symbol_map' =
                          [c \in DOMAIN color_symbol_map \cup {colors[idx + 1].color} |->
                              IF c = colors[idx + 1].color THEN SYMBOLS[idx + 1]
                              ELSE color_symbol_map[c]]
                   /\ UNCHANGED pc
    /\ UNCHANGED <<imgVars, super_pixels, pending, optVars, detVars, outVars, expand_log,
                   pdf_img, colors, tileVars, catalogVars, fontVars>>

\* pdfgen.rs:197: the map is collected
PdfCollect ==
    /\ pc = "pdf_symbols"
    /\ Cardinality(DOMAIN color_symbol_map) = Len(colors)
    /\ pc' = "pdf_done"
    /\ UNCHANGED <<imgVars, super_pixels, pending, optVars, detVars, outVars, expand_log,
                   pdfVars>>

NextPdf == PdfColors \/ PdfSymbol \/ PdfCollect

SpecPdf == InitPdf /\ [][NextPdf]_vars

\* C10: when the assignment of the symbols has ended, every non-white colour
\* of the raster has a symbol, no two colours share one, the colours are
\* sorted by floss id ascending and the i-th colour has the i-th symbol of
\* the alphabet, whatever the number of colours.  Refuted: the 201st colour
\* indexes the alphabet of 200 symbols out of bounds and the composer panics.
C10_SymbolBijection ==
    pc \in {"pdf_done", "pdf_panic"} =>
        /\ DOMAIN color_symbol_map = UsedColors(pdf_img)
        /\ \A c \in DOMAIN color_symbol_map, d \in DOMAIN color_symbol_map :
              color_symbol_map[c] = color_symbol_map[d] => c = d
        /\ \A i \in 1 .. Len(colors) - 1 : colors[i].floss <= colors[i + 1].floss
        /\ \A i \in 1 .. Len(colors) :
              /\ i <= Len(SYMBOLS)
              /\ color_symbol_map[colors[i].color] = SYMBOLS[i]

(***************************************************************************)
(* The tiling and the page count of the composer: sub_divide_images        *)
(* (pdfgen.rs:1403-1443) and total_pages (pdfgen.rs:169-184).  The         *)
(* specification SpecTile starts after the snapping of pdfgen.rs:126-165,  *)
(* with rasters of every width and height around the multiples of the      *)
(* tile size, and with rasters of the colour counts around the legend's    *)
(* page limits.                                                            *)
(***************************************************************************)

\* the greatest number of tiles along an axis
MaxTiles == 3

\* OUTPUT_STITCH_SIZE, pdfgen.rs:38
OUTPUT_STITCH_SIZE_X == 50
OUTPUT_STITCH_SIZE_Y == 70

\* pdfgen.rs:1407-1422: the number of tiles along an axis
TileCount(len, stitch) == (len \div stitch) + (IF len % stitch # 0 THEN 1 ELSE 0)

\* the extent of every tile is the whole tile size: no partial tile
TileExtentFull(i, len, stitch) == stitch

\* pdfgen.rs:1427-1436: the extent of tile i along an axis
TileExtent(i, len, stitch) ==
    IF i * stitch + stitch > len THEN len % stitch ELSE stitch

\* pdfgen.rs:1423-1439: the view pushed for tile (i, j), with its index
TileAt(size, i, j) ==
    [x |-> i * OUTPUT_STITCH_SIZE_X,
     y |-> j * OUTPUT_STITCH_SIZE_Y,
     w |-> TileExtent(i, size[1], OUTPUT_STITCH_SIZE_X),
     h |-> TileExtent(j, size[2], OUTPUT_STITCH_SIZE_Y),
     offset |-> <<i, j>>]

\* the legend's page count without the first page
LegendPagesShort(n) == IF n <= 69 THEN 1 ELSE CeilDiv(n - 69, 75)

\* pdfgen.rs:180-184: the pages of the legend for n colours
LegendPages(n) == IF n <= 69 THEN 1 ELSE CeilDiv(n - 69, 75) + 1

\* pdfgen.rs:179-184
TotalPages(n, tiles) == 3 + LegendPages(n) + tiles

\* widths and heights: 1, and every multiple of the tile size with its
\* two neighbours
Extents(stitch) ==
    {1} \cup {stitch * m + d : m \in 1 .. MaxTiles - 1, d \in {-1, 0, 1}}

\* a raster whose first n pixels have the colours 1 .. n and whose other
\* pixels are white
RasterWith(size, n) == [p \in 1 .. size[1] * size[2] |-> IF p <= n THEN p ELSE WHITE]

\* colour counts around the page limits of the legend (69, 69 + 75)
LegendCounts == {0, 1, 69, 70, 80, 144, 145, 200}

\* the pixelizer is another program: a fixed small state stands for it
MainIdle ==
    /\ in_size = <<2, 1>>
    /\ img = <<AxisColor(1, 0), AxisColor(1, 24)>>
    /\ out_size = <<1, 1>>
    /\ output = <<0>>
    /\ saved = FALSE
    /\ pending = {}
    /\ InitDetector
    /\ InitOptimizer(img, 1, 1, 1, 1)
    /\ super_pixels = InitSuperPixels(img, in_size, out_size, AverageFrom(img))

InitTile ==
    /\ pc = "pdf_tiles"
    /\ \/ /\ pdf_size \in Extents(OUTPUT_STITCH_SIZE_X) \X Extents(OUTPUT_STITCH_SIZE_Y)
          /\ pdf_img = RasterWith(pdf_size, 0)
       \/ /\ pdf_size \in {<<50, 70>>, <<120, 140>>}
          /\ pdf_img \in {RasterWith(pdf_size, n) : n \in LegendCounts}
    /\ colors = <<>>
    /\ color_symbol_map = <<>>
    /\ TileIdle
    /\ CatalogIdle
    /\ FontIdle
    /\ MainIdle

\* pdfgen.rs:1407-1440: one iteration of the inner loop, rows outside and
\* columns inside
TilePush ==
    /\ pc = "pdf_tiles"
    /\ LET cols == TileCount(pdf_size[1], OUTPUT_STITCH_SIZE_X)
           rows == TileCount(pdf_size[2], OUTPUT_STITCH_SIZE_Y)
           n    == Len(sub_images)
       IN  /\ n < cols * rows
           /\ sub_images' = Append(sub_images, TileAt(pdf_size, n % cols, n \div cols))
    /\ UNCHANGED <<imgVars, super_pixels, pending, pc, optVars, detVars, outVars, expand_log,
                   pdf_img, colors, color_symbol_map, pdf_size, rgba, total_pages, overlay, legendVars,
                   catalogVars, fontVars>>

\* pdfgen.rs:1442, 169-184: the loops have ended; the histogram and the
\* page count
TilePages ==
    /\ pc = "pdf_tiles"
    /\ Len(sub_images) = TileCount(pdf_size[1], OUTPUT_STITCH_SIZE_X)
                         * TileCount(pdf_size[2], OUTPUT_STITCH_SIZE_Y)
    /\ total_pages' = TotalPages(Cardinality(UsedColors(pdf_img)), Len(sub_images))
    /\ pc' = "pdf_colors"
    /\ UNCHANGED <<imgVars, super_pixels, pending, optVars, detVars, outVars, expand_log,
                   pdf_img, colors, color_symbol_map, pdf_size, rgba, sub_images, overlay, legendVars,
                   catalogVars, fontVars>>

NextTile == TilePush \/ TilePages

SpecTile == InitTile /\ [][NextTile]_vars

\* the tiles that hold the cell (x, y)
TilesOf(x, y) ==
    {n \in 1 .. Len(sub_images) :
        /\ sub_images[n].x <= x /\ x < sub_images[n].x + sub_images[n].w
        /\ sub_images[n].y <= y /\ y < sub_images[n].y + sub_images[n].h}

\* C11: when sub_divide_images has returned, there are ceil(W/50) *
\* ceil(H/70) tiles in row-major tile order; tile (i, j) is at the offset
\* (i*50, j*70), is not empty, is at most 50 wide and 70 tall and is a
\* slice of the image; a tile
\* narrower than 50 is in the last column and one lower than 70 in the last
\* row; every cell of the image lies in exactly one tile.
C11_TilesPartitionImage ==
    pc = "pdf_colors" =>
        LET W    == pdf_size[1]
            H    == pdf_size[2]
            cols == (W + 49) \div 50
            rows == (H + 69) \div 70
        IN  /\ Len(sub_images) = cols * rows
            /\ \A n \in 1 .. Len(sub_images) :
                  LET tile == sub_images[n]
                      i == (n - 1) % cols
                      j == (n - 1) \div cols
                  IN  /\ tile.offset = <<i, j>>
                      /\ tile.x = i * 50 /\ tile.y = j * 70
                      /\ 1 <= tile.w /\ tile.w <= 50 /\ tile.x + tile.w <= W
                      /\ 1 <= tile.h /\ tile.h <= 70 /\ tile.y + tile.h <= H
                      /\ tile.w < 50 => i = cols - 1
                      /\ tile.h < 70 => j = rows - 1
            /\ \A x \in 0 .. W - 1, y \in 0 .. H - 1 : Cardinality(TilesOf(x, y)) = 1

\* an image of several rows and columns of tiles whose last column and
\* last row are partial has been tiled
C11_Witness ==
    /\ pc = "pdf_colors"
    /\ Len(sub_images) >= 4
    /\ \E n \in 1 .. Len(sub_images) : sub_images[n].w < 50 /\ sub_images[n].h < 70
    /\ \E n \in 1 .. Len(sub_images) : sub_images[n].w = 50 /\ sub_images[n].h = 70

\* C12: total_pages is 3 plus the legend's pages plus the number of tiles;
\* the legend has 1 page for at most 69 colours and ceil((colours - 69) /
\* 75) + 1 pages otherwise; 80 colours on 120 x 140 give 2 legend pages, 6
\* tiles and 11 pages, and a 50 x 70 image has exactly one tile.
C12_TotalPages ==
    pc = "pdf_colors" =>
        LET n      == Cardinality(UsedColors(pdf_img))
            tiles  == Len(sub_images)
            legend == total_pages - 3 - tiles
        IN  /\ n <= 69 => legend = 1
            /\ n > 69 => /\ 75 * (legend - 1) >= n - 69
                         /\ 75 * (legend - 2) < n - 69
            /\ (pdf_size = <<120, 140>> /\ n = 80) =>
                  (legend = 2 /\ tiles = 6 /\ total_pages = 11)
            /\ pdf_size = <<50, 70>> => tiles = 1

\* the page count of the 120 x 140 image with 80 colours has been computed
C12_Witness ==
    /\ pc = "pdf_colors"
    /\ pdf_size = <<120, 140>>
    /\ Cardinality(UsedColors(pdf_img)) = 80
    /\ total_pages = 11

(***************************************************************************)
(* The symbol-to-font map of the composer, pdfgen.rs:85-123.  The answers  *)
(* of the font service are an input: SpecFont starts from every answer for *)
(* the first symbol combined with every answer shared by the other ones.   *)
(***************************************************************************)

\* pdfgen.rs:85-109: the font list, in its order
FONTS == <<"REGULAR", "BOLD", "ITALIC", "FONT_SYMBOLS", "FONT_SYMBOLS_2">>

\* pdfgen.rs:115-119: the inner loop for symbol c, from font f on; every
\* font that contains the glyph replaces the entry of c (0: no entry yet)
RECURSIVE ProbeFonts(_, _, _, _)
ProbeFonts(answers, c, f, entry) ==
    IF f > Len(FONTS) THEN entry
    ELSE ProbeFonts(answers, c, f + 1, IF <<c, f>> \in answers THEN f ELSE entry)

\* pdfgen.rs:111-122: the outer loop; the symbols are the keys of the map
ProbeSymbols(answers) ==
    LET found == [i \in DOMAIN SYMBOLS |-> ProbeFonts(answers, SYMBOLS[i], 1, 0)]
    IN  [c \in {SYMBOLS[i] : i \in {j \in DOMAIN SYMBOLS : found[j] # 0}} |->
            found[CHOOSE i \in DOMAIN SYMBOLS : SYMBOLS[i] = c]]

\* the answers in which the first symbol is in the fonts F1 and every other
\* symbol in the fonts F2
Coverage(F1, F2) ==
    {<<SYMBOLS[1], f>> : f \in F1}
        \cup {<<SYMBOLS[i], f>> : i \in 2 .. Len(SYMBOLS), f \in F2}

InitFont ==
    /\ pc = "pdf_fonts"
    /\ glyphs \in {Coverage(F1, F2) : F1 \in SUBSET DOMAIN FONTS, F2 \in SUBSET DOMAIN FONTS}
    /\ symbol_font_map = <<>>
    /\ pdf_img = <<>>
    /\ pdf_size = <<0, 0>>
    /\ colors = <<>>
    /\ color_symbol_map = <<>>
    /\ TileIdle
    /\ CatalogIdle
    /\ MainIdle

\* pdfgen.rs:111-123
FontMapStep ==
    /\ pc = "pdf_fonts"
    /\ symbol_font_map' = ProbeSymbols(glyphs)
    /\ pc' = "pdf_catalog"
    /\ UNCHANGED <<imgVars, super_pixels, pending, optVars, detVars, outVars, expand_log,
                   pdf_img, colors, color_symbol_map, tileVars, catalogVars, glyphs>>

NextFont == FontMapStep

SpecFont == InitFont /\ [][NextFont]_vars

\* C15: the font recorded for a symbol is the first font of the list that
\* contains its glyph, whatever the font service answers.  Refuted: every
\* font that contains the glyph overwrites the entry, so the last one stays.
C15_FirstFontWins ==
    pc = "pdf_catalog" =>
        \A c \in DOMAIN symbol_font_map :
            /\ <<c, symbol_font_map[c]>> \in glyphs
            /\ \A f \in 1 .. symbol_font_map[c] - 1 : <<c, f>> \notin glyphs

(***************************************************************************)
(* The two loaders of the catalog: load_dmc_colors of the pixelizer        *)
(* (main.rs:575-589) and of the composer (pdfgen.rs:1378-1401).  An entry  *)
(* of dmc_colors.json is a floss id, or none, with a colour; a colour is a *)
(* position of the table dmc_colors.  SpecCatalog loads a catalog in the   *)
(* pixelizer, snaps one assigned colour, and loads it in the composer.     *)
(***************************************************************************)

\* the greatest number of catalog entries
MaxCatalog == 3

\* Option<usize>::None, the null of the JSON file
NoFloss == 0 - 1

\* main.rs:585-588: every entry is kept, whatever its floss
LoadDmcVec(json) == [i \in DOMAIN json |-> json[i].color]

\* pdfgen.rs:1391-1400: filter_map keeps the entries with a floss; collect
\* inserts them in order, so the last entry of a colour stays
LoadFlossMap(json) ==
    LET kept == {i \in DOMAIN json : json[i].floss # NoFloss}
    IN  [c \in {json[i].color : i \in kept} |->
            json[CHOOSE i \in kept :
                    /\ json[i].color = c
                    /\ \A j \in kept : json[j].color = c => j <= i].floss]

\* main.rs:177-188 over a loaded Vec: the loop from entry j on
RECURSIVE NearestIn(_, _, _, _, _)
NearestIn(vec, c10, j, min_distance, min_color) ==
    IF j > Len(vec) THEN min_color
    ELSE LET distance == Dist2(ColorScale(dmc_colors[vec[j]], 10), c10)
         IN  IF FLess(distance, min_distance)
             THEN NearestIn(vec, c10, j + 1, distance, vec[j])
             ELSE NearestIn(vec, c10, j + 1, min_distance, min_color)

\* the catalogs: up to MaxCatalog entries, of two colours and two floss ids
CatalogEntries == [floss : {NoFloss, 1, 2}, color : {2, 3}]

Catalogs ==
    UNION {[1 .. n -> CatalogEntries] : n \in 1 .. MaxCatalog}

InitCatalog ==
    /\ pc = "catalog_main"
    /\ dmc_json \in Catalogs
    /\ dmc_vec = <<>>
    /\ floss_map = <<>>
    /\ pdf_img = <<>>
    /\ pdf_size = <<0, 0>>
    /\ colors = <<>>
    /\ color_symbol_map = <<>>
    /\ TileIdle
    /\ FontIdle
    /\ MainIdle

\* main.rs:101, 575-589
CatalogLoadMain ==
    /\ pc = "catalog_main"
    /\ dmc_vec' = LoadDmcVec(dmc_json)
    /\ pc' = "catalog_snap"
    /\ UNCHANGED <<imgVars, super_pixels, pending, optVars, detVars, outVars, expand_log,
                   pdf_img, colors, color_symbol_map, tileVars, dmc_json, floss_map,
                   fontVars>>

\* main.rs:170-204: the superpixel's colour is snapped to the loaded Vec
CatalogSnap ==
    /\ pc = "catalog_snap"
    /\ \E c \in {dmc_colors[p] : p \in DOMAIN dmc_colors} :
          output' = <<NearestIn(dmc_vec, Tilted10(c), 1, F64_MAX, dmc_vec[1])>>
    /\ saved' = TRUE
    /\ pc' = "catalog_pdf"
    /\ UNCHANGED <<imgVars, super_pixels, pending, optVars, detVars, expand_log, pdfVars>>

\* pdfgen.rs:125, 1378-1401
CatalogLoadPdf ==
    /\ pc = "catalog_pdf"
    /\ floss_map' = LoadFlossMap(dmc_json)
    /\ pc' = "catalog_done"
    /\ UNCHANGED <<imgVars, super_pixels, pending, optVars, detVars, outVars, expand_log,
                   pdf_img, colors, color_symbol_map, tileVars, dmc_json, dmc_vec,
                   fontVars>>

NextCatalog == CatalogLoadMain \/ CatalogSnap \/ CatalogLoadPdf

SpecCatalog == InitCatalog /\ [][NextCatalog]_vars

\* the entries of the file that have a floss id
WithFloss == {i \in DOMAIN dmc_json : dmc_json[i].floss # NoFloss}

\* C14: both loaders drop the entries whose floss id is null, so the colour
\* an output pixel of the pixelizer is snapped to has a floss id; of the
\* entries of one colour the composer's map keeps the last one's floss id.
\* Refuted: the pixelizer's loader keeps every entry.
C14_NullFlossDropped ==
    /\ pc # "catalog_main" =>
          /\ Len(dmc_vec) = Cardinality(WithFloss)
          /\ \A i \in DOMAIN dmc_vec : \E j \in WithFloss : dmc_json[j].color = dmc_vec[i]
    /\ pc \in {"catalog_pdf", "catalog_done"} =>
          \E j \in WithFloss : dmc_json[j].color = output[1]
    /\ pc = "catalog_done" =>
          /\ DOMAIN floss_map = {dmc_json[j].color : j \in WithFloss}
          /\ \A j \in WithFloss :
                (\A l \in WithFloss : dmc_json[l].color = dmc_json[j].color => l <= j)
                    => floss_map[dmc_json[j].color] = dmc_json[j].floss

(***************************************************************************)
(* The composer from the recolouring to the overlay pages:                 *)
(* pdfgen.rs:126-197, the preview's overlay (pdfgen.rs:400-412 or 437-449) *)
(* and the overlay of every tile (pdfgen.rs:685-737), drawn by             *)
(* draw_image_overlay (pdfgen.rs:962-1297).  A raw colour is a number, the *)
(* distance of two colours is the difference of their numbers, and 0 is    *)
(* white.                                                                  *)
(***************************************************************************)

\* the greatest raw colour of an input pixel
MaxRaw == 3

\* pdfgen.rs:145-157: the catalog colours nearest to raw colour r
NearestKeys(map, r) ==
    {c \in DOMAIN map : \A d \in DOMAIN map : Abs(r - c) <= Abs(r - d)}

\* min_by_key returns the first minimum in the map's iteration order, the
\* same in every call of one run: a choice of one nearest key a raw colour
SnapChoices(map) ==
    {snap \in [0 .. MaxRaw -> DOMAIN map] : \A r \in 0 .. MaxRaw : snap[r] \in NearestKeys(map, r)}

\* every pixel is snapped, whatever its alpha
RecolorPixelOpaque(px, snap) == snap[px.color]

\* pdfgen.rs:129-163: one pixel of the loop
RecolorPixel(px, snap) == IF px.alpha = 0 THEN WHITE ELSE snap[px.color]

\* the input pixels
RgbaPixels == [color : 0 .. MaxRaw, alpha : {0, 255}]

\* the inputs: the images of two pixels, and images of two tiles whose
\* pixels between the first and the last one are equal
RgbaImages(size) ==
    IF size[1] * size[2] = 2 THEN [1 .. 2 -> RgbaPixels]
    ELSE {[p \in 1 .. size[1] * size[2] |->
              IF p = 1 THEN a ELSE IF p = size[1] * size[2] THEN b ELSE c] :
          a \in RgbaPixels, b \in RgbaPixels, c \in RgbaPixels}

InitOverlay ==
    /\ pc = "pdf_recolor"
    /\ pdf_size \in {<<2, 1>>, <<1, 2>>, <<OUTPUT_STITCH_SIZE_X + 1, 1>>}
    /\ rgba \in RgbaImages(pdf_size)
    /\ pdf_img = <<>>
    /\ colors = <<>>
    /\ color_symbol_map = <<>>
    /\ sub_images = <<>>
    /\ total_pages = 0
    /\ overlay = <<>>
    /\ top = 0
    /\ page_idx = 0
    /\ row_idx = 0
    /\ col_idx = 0
    /\ color_idx = 0
    /\ pages = <<>>
    /\ dmc_json = <<>>
    /\ dmc_vec = <<>>
    /\ floss_map \in {[c \in K |-> FlossOf(c)] : K \in {{1, 3}, {WHITE, 1, 3}}}
    /\ glyphs \in {Coverage({1}, {1}), Coverage({}, {1})}
    /\ symbol_font_map = ProbeSymbols(glyphs)
    /\ MainIdle

\* pdfgen.rs:126-165
PdfRecolor ==
    /\ pc = "pdf_recolor"
    /\ \E snap \in SnapChoices(floss_map) :
          pdf_img' = [p \in DOMAIN rgba |-> RecolorPixel(rgba[p], snap)]
    /\ pc' = "pdf_tiles"
    /\ UNCHANGED <<imgVars, super_pixels, pending, optVars, detVars, outVars, expand_log,
                   colors, color_symbol_map, tileVars, catalogVars, fontVars>>

\* the image drawn on overlay page n: the whole raster on the preview
\* (page 0), the n-th tile after it
PageView(n) ==
    IF n = 0 THEN [x |-> 0, y |-> 0, w |-> pdf_size[1], h |-> pdf_size[2]]
    ELSE sub_images[n]

\* img.get_pixel(x, y) of pdfgen.rs:1254 on a view
ViewPixel(view, x, y) == pdf_img[(view.y + y) * pdf_size[1] + view.x + x + 1]

\* pdfgen.rs:1252-1258: the cells of a view that are not skipped
Marked(view) ==
    {c \in (0 .. view.w - 1) \X (0 .. view.h - 1) : ViewPixel(view, c[1], c[2]) # WHITE}

\* pdfgen.rs:1252-1296: draw_image_overlay on the next overlay page; the
\* two map lookups of pdfgen.rs:1282 and 1294 panic on a missing key
OverlayPage ==
    /\ pc = "pdf_done"
    /\ Len(overlay) <= Len(sub_images)
    /\ LET view == PageView(Len(overlay))
           cells == Marked(view)
       IN  IF \E c \in cells : ViewPixel(view, c[1], c[2]) \notin DOMAIN color_symbol_map
           THEN pc' = "pdf_panic" /\ UNCHANGED overlay
           ELSE IF \E c \in cells :
                      color_symbol_map[ViewPixel(view, c[1], c[2])] \notin DOMAIN symbol_font_map
           THEN pc' = "pdf_no_font" /\ UNCHANGED overlay
           ELSE /\ overlay' = Append(overlay,
                      {[x |-> c[1], y |-> c[2],
                        symbol |-> color_symbol_map[ViewPixel(view, c[1], c[2])],
                        font |-> symbol_font_map[color_symbol_map[ViewPixel(view, c[1], c[2])]]] :
                       c \in cells})
                /\ UNCHANGED pc
    /\ UNCHANGED <<imgVars, super_pixels, pending, optVars, detVars, outVars, expand_log,
                   pdf_img, colors, color_symbol_map, pdf_size, rgba, sub_images, total_pages, legendVars,
                   catalogVars, fontVars>>

\* pdfgen.rs:739-741: every overlay page has been drawn
OverlayEnd ==
    /\ pc = "pdf_done"
    /\ Len(overlay) = Len(sub_images) + 1
    /\ pc' = "pdf_end"
    /\ UNCHANGED <<imgVars, super_pixels, pending, optVars, detVars, outVars, expand_log,
                   pdfVars>>

NextOverlay ==
    \/ PdfRecolor \/ TilePush \/ TilePages
    \/ PdfColors \/ PdfSymbol \/ PdfCollect
    \/ OverlayPage \/ OverlayEnd

SpecOverlay == InitOverlay /\ [][NextOverlay]_vars

\* C13: once the recolouring has run, every pixel whose alpha is 0 is
\* white; white is no entry of the histogram and has no symbol; on every
\* overlay page drawn no glyph is on a white cell and every other cell has
\* the glyph of its colour; when the map is complete every non-white colour
\* of the raster is a key of it, and the colour's lookup never panics.
C13_WhiteHasNoGlyph ==
    /\ pc # "pdf_recolor" =>
          \A p \in DOMAIN rgba : rgba[p].alpha = 0 => pdf_img[p] = WHITE
    /\ \A i \in DOMAIN colors : colors[i].color # WHITE
    /\ WHITE \notin DOMAIN color_symbol_map
    /\ pc \in {"pdf_done", "pdf_end", "pdf_no_font"} =>
          UsedColors(pdf_img) \subseteq DOMAIN color_symbol_map
    /\ pc # "pdf_panic"
    /\ \A n \in DOMAIN overlay :
          LET view == PageView(n - 1)
          IN  /\ \A g \in overlay[n] :
                    /\ ViewPixel(view, g.x, g.y) # WHITE
                    /\ g.symbol = color_symbol_map[ViewPixel(view, g.x, g.y)]
              /\ \A c \in (0 .. view.w - 1) \X (0 .. view.h - 1) :
                    ViewPixel(view, c[1], c[2]) # WHITE =>
                        \E g \in overlay[n] : g.x = c[1] /\ g.y = c[2]

\* the overlay pages of an image of two tiles have been drawn; the image
\* has a transparent pixel of a non-white raw colour, a glyph and a white
\* cell on one page
C13_Witness ==
    /\ pc = "pdf_end"
    /\ Len(overlay) = 3
    /\ \E p \in DOMAIN rgba : rgba[p].alpha = 0 /\ rgba[p].color = MaxRaw
    /\ \E n \in DOMAIN overlay :
          /\ overlay[n] # {}
          /\ Cardinality(overlay[n]) < PageView(n - 1).w * PageView(n - 1).h

(***************************************************************************)
(* Properties of the cooling step, checked under SpecDet.                  *)
(***************************************************************************)

\* C16: in a cooling step the count of the variance check is the old count
\* plus one when |running variance mean - latest variance| is below the
\* threshold and 0 otherwise; exactly when total_change < EPSILON_PALETTE
\* or that count is above 100, the count is reset to 0, the temperature is
\* multiplied by 0.7 and expand is called if and only if k < color_count;
\* in every other step the count is kept and the temperature, k, the
\* clusters and the length of the palette do not change.
C16_CoolingStep ==
    [][pc = "cool" =>
          LET variance == Variance(prev_changes', running_average')
              count    == IF VarianceCheck(running_variance_avg', variance)
                          THEN variance_check_passed_count + 1 ELSE 0
              trigger  == FLess(total_change, EPSILON_PALETTE) \/ count > VARIANCE_PASSES
          IN  IF trigger
              THEN /\ variance_check_passed_count' = 0
                   /\ t' = (t * ALPHA_NUM) \div ALPHA_DEN
                   /\ expand_log'.called <=> k < color_count
              ELSE /\ variance_check_passed_count' = count
                   /\ t' = t /\ k' = k /\ clusters' = clusters
                   /\ Len(palette') = Len(palette)
                   /\ ~expand_log'.called]_vars

\* a cooling step has just run in which the variance check passed for the
\* 101st time in a row while total_change was not below EPSILON_PALETTE:
\* the count is 0 again, and expand was called
C16_Witness ==
    /\ pc = "snap"
    /\ Len(prev_variances) = RING_LEN
    /\ VarianceCheck(running_variance_avg, prev_variances[Len(prev_variances)])
    /\ ~FLess(total_change, EPSILON_PALETTE)
    /\ variance_check_passed_count = 0
    /\ expand_log.called

(***************************************************************************)
(* Properties of expand and of the passes, checked under Spec.             *)
(***************************************************************************)

\* C17: once the collapse has happened no step calls expand, and k, the
\* clusters and the length of the palette never change again; and in every
\* call of expand the two indices of every cluster it looks at differ.
C17_NoExpandAfterCollapse ==
    [][/\ expand_log.collapsed =>
              /\ pc = "cool" => ~expand_log'.called
              /\ k' = k
              /\ clusters' = clusters
              /\ Len(palette') = Len(palette)
              /\ \A i \in DOMAIN clusters : clusters[i] = <<i - 1, 0>>
       /\ (pc = "cool" /\ expand_log'.called) =>
              \A i \in 1 .. Min(k, color_count) : clusters[i][1] # clusters[i][2]]_vars

\* after the collapse a cooling step has run on a convergence event, and it
\* has not called expand
C17_Witness ==
    /\ expand_log.collapsed
    /\ ~expand_log.called
    /\ pc = "snap"
    /\ FLess(total_change, EPSILON_PALETTE)
    /\ Len(clusters) > 1

(***************************************************************************)
(* expand on its own, main.rs:512-573, called as in main.rs:157-163 on     *)
(* palettes of any finite marginals and of near and distant colours, with  *)
(* one cluster or with the two clusters a first split leaves.              *)
(***************************************************************************)
ExpandEntries ==
    [c : {Base, AxisColor(1, 24)}, p : {0, 1, MargUnit(1), 8 * MargUnit(1)}]

InitExpand ==
    /\ pc = "expand"
    /\ InitImage(<<2, 1>>, <<AxisColor(1, 0), AxisColor(1, 24)>>, 1)
    /\ InitDetector
    /\ super_pixels = InitSuperPixels(img, in_size, out_size, AverageFrom(img))
    /\ delta = Delta(1, 1)
    /\ t = TempUnit
    /\ k \in 1 .. 2
    /\ color_count \in k + 1 .. k + 2
    /\ clusters = IF k = 1 THEN << <<0, 1>> >> ELSE << <<0, 2>>, <<1, 3>> >>
    /\ palette \in [1 .. 2 * k -> ExpandEntries]
    /\ expand_log = EmptyLog
    /\ PdfIdle

\* main.rs:157-163: the call of expand
ExpandStep ==
    /\ pc = "expand"
    /\ LET r == Expand(clusters, palette, k, color_count, Truncate(delta), NumSp)
       IN  /\ clusters' = r.clusters
           /\ palette' = r.palette
           /\ k' = r.k
           /\ expand_log' = [called |-> TRUE, split |-> r.split, collapsed |-> r.collapsed]
           /\ pc' = IF r.panicked THEN "panic" ELSE "expanded"
    /\ UNCHANGED <<imgVars, super_pixels, pending, t, delta, color_count, detVars, outVars,
                   pdfVars>>

NextExpand == ExpandStep

SpecExpand == InitExpand /\ [][NextExpand]_vars

\* C18: no assertion of expand fails on a palette of finite marginals; when
\* expand returns without a collapse, every cluster it split and every
\* cluster it appended pairs an entry with its own copy (the same marginal,
\* the colour moved by delta only), so the sibling marginals differ by less
\* than EPSILON_CLUSTER.
C18_AssertionsHold ==
    /\ pc # "panic"
    /\ (pc = "expanded" /\ ~expand_log.collapsed) =>
          \A j \in expand_log.split \cup (k - Cardinality(expand_log.split) + 1 .. k) :
              LET first  == palette[clusters[j][1] + 1]
                  second == palette[clusters[j][2] + 1]
              IN  /\ second.p = first.p
                  /\ second.c = Perturb(first.c, Truncate(delta))
                  /\ SiblingsClose(first.p, second.p, NumSp)

\* expand has split a cluster whose two marginals were far apart and has
\* returned without a collapse
C18_Witness ==
    /\ pc = "expanded"
    /\ ~expand_log.collapsed
    /\ 1 \in expand_log.split
    /\ ~SiblingsClose(palette[1].p, palette[2].p, NumSp)

\* the un-normalized conditional probabilities of superpixel s, main.rs:473-477
Unnormalized(s) ==
    [i \in 1 .. Len(palette) |->
        CondProb(palette[i].c, palette[i].p, super_pixels[s].sp_color, t)]

\* C19: associate gives every superpixel the colour of the palette entry
\* with the largest un-normalized conditional probability, the entry of the
\* lowest index when several entries share the maximum.  Refuted: the loop
\* of normalize_probs overwrites palette_color at every entry equal to the
\* maximum, so the entry of the highest index stays.
C19_FirstMaximumAssigned ==
    [][pc = "associate" =>
          \A s \in DOMAIN super_pixels :
              LET u    == Unnormalized(s)
                  hits == {i \in DOMAIN u :
                              ~IsNaN(u[i]) /\ \A j \in DOMAIN u : ~IsNaN(u[j]) /\ u[j] <= u[i]}
              IN  hits # {} =>
                      super_pixels'[s].palette_color =
                          palette[CHOOSE i \in hits : \A j \in hits : i <= j].c]_vars

(***************************************************************************)
(* The choice of the owner in sp_refine, main.rs:326-368, on a 2 x 2 image *)
(* with a 2 x 2 output grid: the window of the pixel (1, 1) holds the four *)
(* cells.  The assigned colours are one colour on each diagonal of the     *)
(* grid, near or 50 Lab units away, or NaN, so that two cells off the     *)
(* pixel's own diagonal can share the least cost.                          *)
(***************************************************************************)
WindowColors == {AxisColor(1, 0), AxisColor(1, 50 * ColorUnit), NaNColor}

InitWindow ==
    /\ pc = "sp_refine"
    /\ \E image \in [1 .. 4 -> WindowColors \ {NaNColor}] :
          InitLocals(<<2, 2>>, image, 1, 1, 2, 1)
    /\ \E c1 \in WindowColors, c2 \in WindowColors :
          super_pixels =
              [i \in 1 .. NumSp |->
                  [InitSuperPixels(img, in_size, out_size, BLACK)[i] EXCEPT
                      !.palette_color = IF i \in {1, 4} THEN c1 ELSE c2]]

\* main.rs:322-368: the parallel loops of the assignment
NextWindow == RefineClear \/ RefinePixel

SpecWindow == InitWindow /\ [][NextWindow]_vars

\* the cells of the window of a pixel whose cost is below f64::MAX, with
\* their costs (main.rs:348-358)
Candidates(coord) ==
    {n_coord \in AllCoords(out_size) :
        /\ Abs(n_coord[1] - SpCoord(in_size, out_size, coord)[1]) <= 1
        /\ Abs(n_coord[2] - SpCoord(in_size, out_size, coord)[2]) <= 1
        /\ FLess(Cost(super_pixels[CoordToIdx(out_size, n_coord)], img, in_size, out_size,
                      coord), F64_MAX)}

CostAt(coord, n_coord) ==
    Cost(super_pixels[CoordToIdx(out_size, n_coord)], img, in_size, out_size, coord)

\* the cell of the superpixel that owns a pixel
OwnerCell(coord) ==
    CHOOSE n_coord \in AllCoords(out_size) :
        coord \in super_pixels[CoordToIdx(out_size, n_coord)].pixels

PixelsOf(sps) == [i \in DOMAIN sps |-> sps[i].pixels]

\* C21: a per-pixel task of sp_refine leaves every superpixel's centre and
\* assigned colour (and everything but the owned sets) as it found them, and
\* when the last task has run, in whatever order the tasks ran, the owned
\* sets are those of the pass run sequentially in index order.
C21_AssignmentDeterministic ==
    [][pc = "assign" /\ pc' = "assign" =>
          /\ \A i \in DOMAIN super_pixels :
                super_pixels'[i] = [super_pixels[i] EXCEPT !.pixels = super_pixels'[i].pixels]
          /\ pending' = {} =>
                PixelsOf(super_pixels')
                = PixelsOf(AssignFrom(ClearPixels(super_pixels), img, in_size, out_size, 0))]_vars

\* C21 witness: every task of a 2 x 2 input has run, over four superpixels
\* with finite assigned colours, and more than one superpixel owns a pixel
C21_Witness ==
    /\ pc = "assign"
    /\ pending = {}
    /\ in_size = <<2, 2>>
    /\ NumSp = 4
    /\ \A i \in DOMAIN super_pixels : ~ColorIsNaN(super_pixels[i].palette_color)
    /\ Cardinality({i \in DOMAIN super_pixels : super_pixels[i].pixels # {}}) > 1

(***************************************************************************)
(* The smoothing passes of sp_refine, main.rs:375-463, checked under       *)
(* SpecRefine on the step that follows the last task.                      *)
(***************************************************************************)
\* the superpixels as step 3 (main.rs:370-373) leaves them
AfterStep3 == UpdateAll(super_pixels, img, in_size)

\* C22: the centre and the mean colour sp_refine commits for a superpixel
\* are the Laplacian and the bilateral value computed from the centres and
\* mean colours step 3 left (its own and its neighbours'), never from a
\* value already smoothed in the same pass, and nothing else of the
\* superpixel changes after step 3.
C22_SmoothingReadsStep3 ==
    [][pc = "assign" /\ pc' = "associate" =>
          \A i \in DOMAIN super_pixels :
             super_pixels'[i] =
                [AfterStep3[i] EXCEPT
                    !.coord = LaplacianCoord(AfterStep3, out_size, IdxToCoord(out_size, i - 1)),
                    !.sp_color = BilateralColor(AfterStep3, out_size,
                                                IdxToCoord(out_size, i - 1))]]_vars

\* C22 witness: a pass has ended over four superpixels in which the
\* smoothing changed the mean colour of a superpixel and of a later
\* neighbour of it, and moved a centre
C22_Witness ==
    /\ pc = "associate"
    /\ NumSp = 4
    /\ LET s3 == UpdateAll(super_pixels, img, in_size)
       IN  /\ super_pixels[1].sp_color # s3[1].sp_color
           /\ super_pixels[2].sp_color # s3[2].sp_color
           /\ \E i \in DOMAIN super_pixels : super_pixels[i].coord # s3[i].coord

PerturbOffset(d2) == <<d2[1], d2[2], d2[2]>>

\* the palette is [(c0, 0.5), (c0 + d2 through perturb, 0.5)], with c0 the
\* mean colour of the input and delta of length 1.5
InitialPaletteWith(d2) ==
    /\ Len(palette) = 2
    /\ palette[1] = [c |-> AverageFrom(img), p |-> MargUnit(NumSp) \div 2]
    /\ palette[2] = [c |-> ColorAdd(AverageFrom(img), PerturbOffset(d2)),
                     p |-> MargUnit(NumSp) \div 2]
    /\ 4 * Dist2(delta, BLACK) = 9 * ColorUnit * ColorUnit

\* a call of expand without collapse leaves the second colour of every
\* cluster that was split, and of every new cluster, at the first colour
\* plus d2 through perturb, and moves the second colour of every other
\* cluster by d2 through perturb
SeparatedWith(d2) ==
    /\ \A j \in expand_log'.split \cup (k + 1 .. k') :
          palette'[clusters'[j][2] + 1].c
          = ColorAdd(palette'[clusters'[j][1] + 1].c, PerturbOffset(d2))
    /\ \A j \in (1 .. k) \ expand_log'.split :
          palette'[clusters'[j][2] + 1].c
          = ColorAdd(palette[clusters[j][2] + 1].c, PerturbOffset(d2))

\* a cooling step in which expand ran to its end without collapse
ExpandPerturbed ==
    pc = "cool" /\ pc' = "snap" /\ expand_log'.called /\ ~expand_log'.collapsed

\* C24 as stated: the initial palette is [(c0, 0.5), (c0 + delta, 0.5)], c0
\* the mean Lab colour of the input and delta 1.5 times the first principal
\* axis projected to the (a, b) plane, applied through perturb; expand
\* re-separates siblings by the same delta.  Refuted: the 2-vector is not
\* the (a, b) part of the axis.
C24_DeltaInABPlane ==
    [][/\ (pc = "while" /\ prev_changes = <<>>) => InitialPaletteWith(ProjectAB(delta))
       /\ ExpandPerturbed => SeparatedWith(ProjectAB(delta))]_vars

\* C24 amended: the initial palette is [(c0, 0.5), (c0 + delta, 0.5)], c0
\* the mean Lab colour of the input and delta the first two components
\* (L, a) of 1.5 times the first principal axis, applied through perturb
\* (the first to L, the second to a and to b); expand re-separates siblings
\* by the same 2-vector.
C24_DeltaTruncated ==
    [][/\ (pc = "while" /\ prev_changes = <<>>) => InitialPaletteWith(<<delta[1], delta[2]>>)
       /\ ExpandPerturbed => SeparatedWith(<<delta[1], delta[2]>>)]_vars

\* C24 witness: expand has split a cluster and perturbed the second colours
\* by a delta along the a axis
C24_Witness ==
    /\ pc = "snap"
    /\ expand_log.called
    /\ expand_log.split # {}
    /\ ~expand_log.collapsed
    /\ delta[2] # 0

(***************************************************************************)
(* The marginals across a call of expand, main.rs:512-573, checked under   *)
(* Spec on the cooling steps that call it.                                 *)
(***************************************************************************)
\* the sum of the marginals of a palette
MarginalSum(pal) == FSum([i \in 1 .. Len(pal) |-> pal[i].p])

\* the position of cluster j among the clusters split in this call
SplitRank(j) == Cardinality({i \in expand_log'.split : i <= j})

\* without collapse: the two marginals of a split cluster are halved and
\* the two entries appended for it carry the halved values; no other
\* marginal changes
SplitHalves ==
    /\ \A j \in expand_log'.split :
          LET x == clusters[j][1] + 1
              y == clusters[j][2] + 1
          IN  /\ 2 * palette'[x].p = palette[x].p
              /\ 2 * palette'[y].p = palette[y].p
              /\ palette'[Len(palette) + 2 * SplitRank(j) - 1].p = palette'[x].p
              /\ palette'[Len(palette) + 2 * SplitRank(j)].p = palette'[y].p
    /\ \A i \in 1 .. Len(palette) :
          (\A j \in expand_log'.split : i # clusters[j][1] + 1 /\ i # clusters[j][2] + 1)
          => palette'[i].p = palette[i].p

\* with collapse: the entry of a cluster that was not split carries the sum
\* of its two marginals; a split cluster (x, y) has become (x, copy of x)
\* and a new cluster (y, copy of y), whose entries carry twice the halved
\* marginal of x and of y
CollapseSums ==
    \A j \in 1 .. k :
       LET x == clusters[j][1] + 1
           y == clusters[j][2] + 1
       IN  IF j \in expand_log'.split
           THEN /\ palette'[j].p = 2 * FHalf(palette[x].p)
                /\ palette'[k + SplitRank(j)].p = 2 * FHalf(palette[y].p)
           ELSE palette'[j].p = palette[x].p + palette[y].p

\* C25: a call of expand leaves the sum of the palette marginals as it was
\* (so it stays 1 if it was 1): a split halves the two marginals of its
\* cluster and appends copies with the halved values, and the collapse
\* gives every new entry the sum of its cluster's two marginals.
C25_ExpandKeepsMarginalSum ==
    [][(pc = "cool" /\ expand_log'.called) =>
          /\ pc' = "snap"
          /\ MarginalSum(palette') = MarginalSum(palette)
          /\ IF expand_log'.collapsed THEN CollapseSums ELSE SplitHalves]_vars

\* C25 witness: a call of expand has split a cluster of two different
\* marginals and collapsed
C25_Witness ==
    /\ pc = "snap"
    /\ expand_log.called
    /\ expand_log.collapsed
    /\ expand_log.split # {}
    /\ \E i, j \in 1 .. Len(palette) : palette[i].p # palette[j].p

(***************************************************************************)
(* The cluster list, main.rs:97-98 and 512-573, checked under Spec.        *)
(***************************************************************************)
\* the slots <<cluster, component>> of the cluster list that hold the
\* 0-based palette index idx
SlotsOf(idx) ==
    {s \in (1 .. Len(clusters)) \X {1, 2} : clusters[s[1]][s[2]] = idx}

\* C26: the cluster list has exactly k entries and every index in it is an
\* index of the palette; as long as no collapse has happened the two
\* indices of a cluster differ and every palette index is in exactly one
\* slot of the cluster list; and no step ends in the panic of an index out
\* of range or of an entry requested twice.
C26_ClustersPartitionPalette ==
    /\ pc # "panic"
    /\ Len(clusters) = k
    /\ \A j \in 1 .. Len(clusters) :
          /\ clusters[j][1] \in 0 .. Len(palette) - 1
          /\ clusters[j][2] \in 0 .. Len(palette) - 1
    /\ ~expand_log.collapsed =>
          /\ \A j \in 1 .. Len(clusters) : clusters[j][1] # clusters[j][2]
          /\ \A idx \in 0 .. Len(palette) - 1 : Cardinality(SlotsOf(idx)) = 1

\* C26 witness: expand has split the first cluster, associate has run over
\* the four entries, and a later call of expand has collapsed the palette
C26_Witness ==
    /\ pc = "associate"
    /\ expand_log.collapsed
    /\ k > 2
    /\ Len(palette) = k

(***************************************************************************)
(* The floss snapper on its own, main.rs:168-204, with the tasks of its    *)
(* parallel pipeline (one per superpixel, zipped with the output pixels)   *)
(* run one at a time in any order.  The assigned colours are drawn from a  *)
(* set with a colour half way between two catalog entries, a colour the    *)
(* tilt of (1.0, 1.1, 1.1) decides, and NaN.                               *)
(***************************************************************************)
InitSnap ==
    /\ pc = "snap"
    /\ \E size \in Sizes, side \in 1 .. MaxSide :
          InitLocals(size, [i \in 1 .. size[1] * size[2] |-> Base], 1, 1, side, 1)
    /\ \E c1, c2 \in {<<6, 0, 0>>, <<24, 6, 6>>, <<13, 0, 0>>, NaNColor} :
          super_pixels =
              [i \in 1 .. NumSp |->
                  [InitSuperPixels(img, in_size, out_size, BLACK)[i] EXCEPT
                      !.palette_color = IF i % 2 = 1 THEN c1 ELSE c2]]

\* main.rs:170, 196-198: the pipeline is built, one task per superpixel
SnapStart ==
    /\ pc = "snap"
    /\ pending' = DOMAIN super_pixels
    /\ pc' = "snap_tasks"
    /\ UNCHANGED <<imgVars, super_pixels, optVars, detVars, outVars, expand_log, pdfVars>>

\* main.rs:172-202: the task of superpixel i, which writes output pixel i
SnapTask ==
    /\ pc = "snap_tasks"
    /\ \E i \in pending :
          /\ output' = [output EXCEPT ![i] = Snap(super_pixels[i].palette_color)]
          /\ pending' = pending \ {i}
    /\ UNCHANGED <<imgVars, super_pixels, pc, optVars, detVars, saved, expand_log, pdfVars>>

\* main.rs:204, once every task has run
SnapSave ==
    /\ pc = "snap_tasks"
    /\ pending = {}
    /\ saved' = TRUE
    /\ pc' = "while"
    /\ UNCHANGED <<imgVars, super_pixels, pending, optVars, detVars, output, expand_log,
                   pdfVars>>

NextSnap == SnapStart \/ SnapTask \/ SnapSave

SpecSnap == InitSnap /\ [][NextSnap]_vars

\* ten times the squared Lab distance unit between catalog entry j and the
\* colour c scaled by (1.0, 1.1, 1.1)
TiltedDist2(j, c) ==
    IF ColorIsNaN(c) THEN NaN
    ELSE (10 * dmc_colors[j][1] - 10 * c[1]) * (10 * dmc_colors[j][1] - 10 * c[1])
         + (10 * dmc_colors[j][2] - 11 * c[2]) * (10 * dmc_colors[j][2] - 11 * c[2])
         + (10 * dmc_colors[j][3] - 11 * c[3]) * (10 * dmc_colors[j][3] - 11 * c[3])

\* C27: when the raster is saved, output pixel i holds, for every
\* superpixel index i, a catalog entry than which no entry is nearer (in
\* squared Lab distance) to superpixel i's assigned colour scaled by
\* (1.0, 1.1, 1.1), and the first of the entries that near; this holds in
\* whatever order the tasks ran, and every output pixel is a catalog entry.
C27_SnapNearestFirst ==
    (pc = "while" /\ saved) =>
        /\ Len(output) = Len(super_pixels)
        /\ \A i \in DOMAIN super_pixels :
              LET c == super_pixels[i].palette_color
              IN  /\ output[i] \in 1 .. Len(dmc_colors)
                  /\ \A j \in 1 .. Len(dmc_colors) :
                        ~FLess(TiltedDist2(j, c), TiltedDist2(output[i], c))
                  /\ \A j \in 1 .. output[i] - 1 :
                        FLess(TiltedDist2(output[i], c), TiltedDist2(j, c))

\* C27 witness: a raster of four pixels has been saved in which one pixel's
\* colour was half way between two catalog entries and its neighbour's was
\* decided by the tilt
C27_Witness ==
    /\ pc = "while"
    /\ saved
    /\ NumSp = 4
    /\ super_pixels[1].palette_color = <<6, 0, 0>>
    /\ super_pixels[2].palette_color = <<24, 6, 6>>
    /\ output[1] # output[2]

(***************************************************************************)
(* The two histories of the convergence detector, main.rs:108-145, checked *)
(* under SpecDet on every pass of the detector.                            *)
(***************************************************************************)
\* ring after the push of x: at most RING_LEN entries, and when the ring
\* was full the entries but the oldest, in their order, followed by x
PushedInto(ring, after, x) ==
    /\ Len(after) <= RING_LEN
    /\ after = (IF Len(ring) = RING_LEN THEN SubSeq(ring, 2, Len(ring)) ELSE ring) \o <<x>>

\* the sum of the entries lo .. hi of a history, by halves
RECURSIVE HeldSum(_, _, _)
HeldSum(ring, lo, hi) ==
    IF lo > hi THEN 0
    ELSE IF lo = hi THEN ring[lo]
    ELSE FAdd(HeldSum(ring, lo, (lo + hi) \div 2), HeldSum(ring, (lo + hi) \div 2 + 1, hi))

\* C28: after every pass each of the two histories (total_change, variance)
\* holds at most 100 entries, the entry evicted by the push into a full
\* history is the oldest one, and each running sum is the sum of the
\* entries its history holds.
C28_RingBuffers ==
    [][pc = "cool" =>
          /\ PushedInto(prev_changes, prev_changes', total_change)
          /\ PushedInto(prev_variances, prev_variances',
                        prev_variances'[Len(prev_variances')])
          /\ running_average' = HeldSum(prev_changes', 1, Len(prev_changes'))
          /\ running_variance_avg' = HeldSum(prev_variances', 1, Len(prev_variances'))]_vars

\* C28 witness: both histories are full, every total_change held is a loud
\* one and the oldest variance held was computed from a full history, so
\* entries have been evicted from both
C28_Witness ==
    /\ pc = "snap"
    /\ Len(prev_changes) = RING_LEN
    /\ Len(prev_variances) = RING_LEN
    /\ prev_changes[1] = Loud
    /\ prev_variances[1] = 0
    /\ running_average = RING_LEN * Loud

(***************************************************************************)
(* The pages of the composer, pdfgen.rs:265-739: the four front pages, the *)
(* legend loop and the tile pages, with the index every page prints.       *)
(* SpecPages runs the composer from the tiling to the returned document on *)
(* rasters of one, two and five tiles with the colour counts around the   *)
(* legend's page limits and with more colours than symbols, with a font    *)
(* for every symbol or for every symbol but the first.                     *)
(***************************************************************************)

\* PORTRAIT_SIZE.1 of pdfgen.rs:46, in mm
PORTRAIT_SIZE_Y == 297

ColumnFullEarly(start, row) == 2 * (PORTRAIT_SIZE_Y - start - 10 * row) - 7 < 60

\* pdfgen.rs:560: the row of a page whose rows start at start mm is below
\* the foot of the column (the comparison is made in half millimetres)
ColumnFull(start, row) == 2 * (PORTRAIT_SIZE_Y - start - 10 * row) - 7 < 40

\* pdfgen.rs:1252-1296: what draw_image_overlay draws on a view
Glyphs(view) ==
    {[x |-> c[1], y |-> c[2],
      symbol |-> color_symbol_map[ViewPixel(view, c[1], c[2])],
      font |-> symbol_font_map[color_symbol_map[ViewPixel(view, c[1], c[2])]]] :
     c \in Marked(view)}

\* pdfgen.rs:1294: no lookup of draw_image_overlay on the view panics
Drawable(view) ==
    \A c \in Marked(view) :
        /\ ViewPixel(view, c[1], c[2]) \in DOMAIN color_symbol_map
        /\ color_symbol_map[ViewPixel(view, c[1], c[2])] \in DOMAIN symbol_font_map

InitPages ==
    /\ pc = "pdf_tiles"
    /\ pdf_size \in {<<20, 11>>, <<51, 5>>, <<201, 2>>}
    /\ pdf_img \in {RasterWith(pdf_size, n) : n \in LegendCounts \cup {MaxUsed}}
    /\ colors = <<>>
    /\ color_symbol_map = <<>>
    /\ TileIdle
    /\ CatalogIdle
    /\ glyphs \in {Coverage({1}, {1}), Coverage({}, {1})}
    /\ symbol_font_map = ProbeSymbols(glyphs)
    /\ MainIdle

\* pdfgen.rs:265-545: the pages 1 to 4.  Page 3 prints its index and then
\* draws the overlay of the whole raster (pdfgen.rs:400-412 or 437-449),
\* which panics on a symbol without a font; the locals of the legend loop
\* are set after page 4
PrintFront ==
    /\ pc = "pdf_done"
    /\ pages = <<>>
    /\ IF Drawable(PageView(0))
       THEN /\ pages' = <<1, 2, 3, 4>>
            /\ overlay' = <<Glyphs(PageView(0))>>
            /\ top' = 50
            /\ pc' = "pdf_pages"
       ELSE /\ pages' = <<1, 2, 3>>
            /\ pc' = "pdf_no_font"
            /\ UNCHANGED <<overlay, top>>
    /\ page_idx' = 0
    /\ row_idx' = 0
    /\ col_idx' = 0
    /\ color_idx' = 0
    /\ UNCHANGED <<imgVars, super_pixels, pending, optVars, detVars, outVars, expand_log,
                   pdf_img, colors, color_symbol_map, pdf_size, rgba, sub_images, total_pages,
                   catalogVars, fontVars>>

\* pdfgen.rs:552-682: one colour of the legend loop
LegendRow ==
    /\ pc = "pdf_pages"
    /\ color_idx < Len(colors)
    /\ LET wrap == ColumnFull(top, row_idx)
           col  == IF wrap THEN col_idx + 1 ELSE col_idx
           row  == IF wrap THEN 0 ELSE row_idx
           turn == col > 2
       IN  /\ pages' = IF turn THEN Append(pages, 4 + (page_idx + 1)) ELSE pages
           /\ page_idx' = IF turn THEN page_idx + 1 ELSE page_idx
           /\ top' = IF turn THEN 25 ELSE top
           /\ col_idx' = IF turn THEN 0 ELSE col
           /\ IF SYMBOLS[color_idx + 1] \in DOMAIN symbol_font_map
              THEN /\ row_idx' = (IF turn THEN 0 ELSE row) + 1
                   /\ color_idx' = color_idx + 1
                   /\ UNCHANGED pc
              ELSE /\ row_idx' = IF turn THEN 0 ELSE row
                   /\ pc' = "pdf_no_font"
                   /\ UNCHANGED color_idx
    /\ UNCHANGED <<imgVars, super_pixels, pending, optVars, detVars, outVars, expand_log,
                   pdf_img, colors, color_symbol_map, pdf_size, rgba, sub_images, total_pages,
                   overlay, catalogVars, fontVars>>

\* pdfgen.rs:685-737: the page of the next tile, idx = Len(overlay) - 1
PrintTile ==
    /\ pc = "pdf_pages"
    /\ color_idx = Len(colors)
    /\ Len(overlay) <= Len(sub_images)
    /\ pages' = Append(pages, (4 + page_idx) + (Len(overlay) - 1) + 1)
    /\ IF Drawable(PageView(Len(overlay)))
       THEN /\ overlay' = Append(overlay, Glyphs(PageView(Len(overlay))))
            /\ UNCHANGED pc
       ELSE /\ pc' = "pdf_no_font"
            /\ UNCHANGED overlay
    /\ UNCHANGED <<imgVars, super_pixels, pending, optVars, detVars, outVars, expand_log,
                   pdf_img, colors, color_symbol_map, pdf_size, rgba, sub_images, total_pages,
                   top, page_idx, row_idx, col_idx, color_idx, catalogVars, fontVars>>

\* pdfgen.rs:739: the document is returned
PrintDone ==
    /\ pc = "pdf_pages"
    /\ color_idx = Len(colors)
    /\ Len(overlay) = Len(sub_images) + 1
    /\ pc' = "pdf_printed"
    /\ UNCHANGED <<imgVars, super_pixels, pending, optVars, detVars, outVars, expand_log,
                   pdfVars>>

NextPages ==
    \/ TilePush
    \/ TilePages
    \/ PdfColors
    \/ PdfSymbol
    \/ PdfCollect
    \/ PrintFront
    \/ LegendRow
    \/ PrintTile
    \/ PrintDone

SpecPages == InitPages /\ [][NextPages]_vars

\* the legend pages begun after the first one when the colours 0 .. n have
\* been drawn, if the first page holds 69 colours and every later one 75
PagesBegun(n) == IF n < 69 THEN 0 ELSE (n - 69) \div 75 + 1

\* C29: the pages the composer emits agree with total_pages.  The legend
\* loop begins a new page exactly when a colour follows the 69 colours of the
\* first legend page or the 75 colours of a later one; the indices printed so
\* far are 1, 2, 3, ... without gap or repetition; and when the document is
\* returned the pages are 1 .. total_pages, a page for every tile among them,
\* the last tile page being numbered total_pages.
C29_PagesAgreeWithTotal ==
    pc \in {"pdf_pages", "pdf_printed", "pdf_no_font", "pdf_panic"} =>
        /\ \A i \in 1 .. Len(pages) : pages[i] = i
        /\ Len(pages) <= total_pages
        /\ pc = "pdf_pages" /\ color_idx >= 1 => page_idx = PagesBegun(color_idx - 1)
        /\ pc = "pdf_pages" /\ color_idx = 0 => page_idx = 0
        /\ pc = "pdf_printed" =>
              /\ Len(pages) = total_pages
              /\ pages[Len(pages)] = total_pages
              /\ Len(pages) - (4 + page_idx) = Len(sub_images)

\* a chart of 70 colours and two tiles has been printed: the 70th colour
\* has begun the second legend page, the legend pages are 4 and 5 and the
\* tile pages 6 and 7
C29_Witness ==
    /\ pc = "pdf_printed"
    /\ Len(colors) = 70
    /\ page_idx = 1
    /\ Len(sub_images) = 2
    /\ total_pages = 7
    /\ pages = [i \in 1 .. 7 |-> i]

(***************************************************************************)
(* SuperPixel::update_position in the width of its arithmetic,             *)
(* main.rs:298-305: UVec2 is a pair of u32, and sum::<UVec2>() adds the     *)
(* owned coordinates with the + of u32, which panics on overflow in a      *)
(* build with overflow checks and wraps in a build without them.  A u32 is *)
(* a pair <<high, low>> of 16-bit halves, with the flag of an addition     *)
(* that has passed 2^32 - 1.  SpecCentre runs the pass of a pixelizer      *)
(* called with max_side_size 1 on images up to 4096 pixels a side: the     *)
(* one superpixel owns every pixel (main.rs:326-368).  The owned set is    *)
(* the rectangle [w, h] of the coordinates (0 .. w - 1) x (0 .. h - 1),    *)
(* and the sum over it is taken row by row; the addition of u32 commutes   *)
(* and the terms are not negative, so the order decides neither the        *)
(* wrapped sum nor whether an addition overflows.  update_position reads   *)
(* no colour: img is left empty.                                           *)
(***************************************************************************)

\* the two halves of a u32
Half == Pow2(16)

\* n as u32, 0 <= n < 2^31
U32Of(n) == [v |-> <<n \div Half, n % Half>>, o |-> FALSE]

\* u32 + u32, wrapped, and whether this or an earlier addition overflowed
U32Add(a, b) ==
    LET lo == a.v[2] + b.v[2]
        hi == a.v[1] + b.v[1] + lo \div Half
    IN  [v |-> <<hi % Half, lo % Half>>, o |-> a.o \/ b.o \/ hi >= Half]

\* a added n times to 0, by halves of n
RECURSIVE U32Times(_, _)
U32Times(a, n) ==
    IF n = 0 THEN U32Of(0)
    ELSE LET h == U32Times(a, n \div 2)
             d == U32Add(h, h)
         IN  IF n % 2 = 1 THEN U32Add(d, a) ELSE d

\* bit i of a u32
U32Bit(v, i) == IF i >= 16 THEN (v[1] \div Pow2(i - 16)) % 2 ELSE (v[2] \div Pow2(i)) % 2

\* u32 / u32 (n < 2^30), bit by bit from bit i down
RECURSIVE U32DivFrom(_, _, _, _, _)
U32DivFrom(v, n, i, rem, q) ==
    IF i < 0 THEN q
    ELSE LET r == 2 * rem + U32Bit(v, i)
         IN  IF r >= n THEN U32DivFrom(v, n, i - 1, r - n, 2 * q + 1)
             ELSE U32DivFrom(v, n, i - 1, r, 2 * q)

U32Div(v, n) == U32DivFrom(v, n, 31, 0, 0)

\* 0 + 1 + ... + (w - 1), below 2^31 for w < 2^16
RowSum(w) == IF w % 2 = 0 THEN (w \div 2) * (w - 1) ELSE w * ((w - 1) \div 2)

\* main.rs:303: self.pixels.iter().map(|v| *v).sum::<UVec2>() over a
\* rectangle, each component the sum of one row (column) added once for
\* every row (column)
SumRect(rect) ==
    <<U32Times(U32Of(RowSum(rect.w)), rect.h), U32Times(U32Of(RowSum(rect.h)), rect.w)>>

\* main.rs:298-305 in a build that wraps
UpdatePositionWrapping(sp) ==
    IF sp.pixels.w * sp.pixels.h = 0
    THEN [sp EXCEPT !.coord = sp.original_coord]
    ELSE [sp EXCEPT !.coord = <<U32Div(SumRect(sp.pixels)[1].v, sp.pixels.w * sp.pixels.h),
                                U32Div(SumRect(sp.pixels)[2].v, sp.pixels.w * sp.pixels.h)>>]

\* the sides of the input images
CentreSides == {1, 2, 3, 100, 1000, 2048, 2049, 2100, 4096}

InitCentre ==
    /\ pc = "sp_refine"
    /\ in_size \in CentreSides \X CentreSides
    /\ img = <<>>
    /\ out_size = OutSize(in_size, 1)
    /\ output = <<0>>
    /\ saved = FALSE
    /\ pending = {}
    /\ PdfIdle
    /\ InitDetector
    /\ InitOptimizer(<<AxisColor(1, 0), AxisColor(1, 24)>>, 1, 1, 1, 1)
    /\ super_pixels = <<[NewSuperPixel(<<Base>>, <<1, 1>>, <<0, 0>>, Base) EXCEPT
                            !.pixels = [w |-> 0, h |-> 0]]>>

\* main.rs:322-368: the owned set is emptied and every pixel is inserted
\* into the superpixel of the only cell of its window
CentreAssign ==
    /\ pc = "sp_refine"
    /\ super_pixels' = [super_pixels EXCEPT ![1].pixels = [w |-> in_size[1], h |-> in_size[2]]]
    /\ pc' = "centre"
    /\ UNCHANGED <<imgVars, pending, optVars, detVars, outVars, expand_log, pdfVars>>

\* main.rs:370-371, 298-305: update_position of the superpixel; an
\* overflowing sum panics or wraps, as the build decides
CentreUpdate ==
    /\ pc = "centre"
    /\ \/ /\ super_pixels' = [super_pixels EXCEPT ![1] = UpdatePositionWrapping(@)]
          /\ pc' = "centre_done"
       \/ /\ SumRect(super_pixels[1].pixels)[1].o \/ SumRect(super_pixels[1].pixels)[2].o
          /\ pc' = "panic"
          /\ UNCHANGED super_pixels
    /\ UNCHANGED <<imgVars, pending, optVars, detVars, outVars, expand_log, pdfVars>>

NextCentre == CentreAssign \/ CentreUpdate

SpecCentre == InitCentre /\ [][NextCentre]_vars

\* the u32 sum of the owned coordinates has passed 2^32 - 1
SumOverflows == SumRect(super_pixels[1].pixels)[1].o \/ SumRect(super_pixels[1].pixels)[2].o

\* the centre is the component-wise floor of the mean of the owned
\* coordinates, (w - 1) / 2 and (h - 1) / 2 for a rectangle
CentreIsFloorMean ==
    super_pixels[1].coord = <<(super_pixels[1].pixels.w - 1) \div 2,
                              (super_pixels[1].pixels.h - 1) \div 2>>

\* C30: update_position computes the centre in u32 without overflow: for
\* every input size and max_side_size the u32 sum of the owned coordinates
\* does not exceed 2^32 - 1, no addition panics, and the new centre is the
\* component-wise floor of the true mean of the owned coordinates and lies
\* inside the image.
C30_CentreWithoutOverflow ==
    /\ pc # "panic"
    /\ pc \in {"centre", "centre_done"} => ~SumOverflows
    /\ pc = "centre_done" =>
          /\ CentreIsFloorMean
          /\ super_pixels[1].coord[1] < in_size[1]
          /\ super_pixels[1].coord[2] < in_size[2]

\* what holds in its place: when the sum stays within u32 the centre is the
\* floor of the mean
CentreExactWithinU32 ==
    pc = "centre_done" /\ ~SumOverflows => CentreIsFloorMean

(***************************************************************************)
(* Properties of the optimizer, checked under Spec.                        *)
(***************************************************************************)
\* the sibling marginals of cluster i differ by less than EPSILON_CLUSTER
SiblingsCloseAt(i) ==
    SiblingsClose(palette[clusters[i][1] + 1].p, palette[clusters[i][2] + 1].p, NumSp)

\* the clusters the last call of expand split, and the ones it appended
SplitNow == expand_log.split \cup (k - Cardinality(expand_log.split) + 1 .. k)

\* C2: in every reachable state the super-cluster count k is at most the
\* requested color_count, so that a collapsed palette never has more than
\* color_count entries.  Refuted: with color_count = 3 and k = 2 both
\* clusters split in one call of expand and k becomes 4.
C2_KAtMostColorCount == k <= color_count

\* C4: whenever main returns Ok the output raster has been written, also
\* when the initial temperature is already at most T_FINAL.  Refuted: the
\* only save is inside the loop, which a solid image never enters.
C4_SavedOnExit == pc = "done" => saved

\* C5: with color_count = 1 the optimizer finishes with a palette of exactly
\* one entry.  Refuted, also for the runs that went through the loop: expand
\* is called only when k < color_count, so the two entries are never merged.
C5_OneEntryAtExit == (color_count = 1 /\ pc = "done" /\ saved) => Len(palette) = 1

\* C6: the palette has exactly 2k entries in every state before the collapse
\* (the initial state and the state after every call of expand that returns
\* with k < k_max) and exactly k entries in every state after it.
C6_PaletteLength ==
    IF expand_log.collapsed THEN Len(palette) = k ELSE Len(palette) = 2 * k

\* C6 witness: a state after a collapse that merged at least two clusters
C6_Witness == expand_log.collapsed /\ k >= 2 /\ Len(palette) = k

\* C9 as stated: in every state before the collapse the sibling marginals
\* of every active cluster differ by less than EPSILON_CLUSTER.  Refuted:
\* associate recomputes the marginals and the siblings drift apart.
C9_SiblingsAlwaysClose ==
    ~expand_log.collapsed => \A i \in 1 .. k : SiblingsCloseAt(i)

\* C9 amended: when a call of expand that does not collapse returns, no
\* assertion has failed and the sibling marginals of every cluster the call
\* split, and of every cluster it appended, differ by less than
\* EPSILON_CLUSTER (they are equal halves).
C9_SiblingsCloseAfterSplit ==
    (pc \in {"snap", "panic"} /\ expand_log.called /\ ~expand_log.collapsed)
        => (pc # "panic" /\ \A i \in SplitNow : SiblingsCloseAt(i))

\* C9 witness: a call of expand has just split a cluster without collapsing
C9_Witness ==
    /\ pc = "snap" /\ expand_log.called /\ ~expand_log.collapsed
    /\ expand_log.split # {}
    /\ \A i \in SplitNow : palette[clusters[i][1] + 1].p = palette[clusters[i][2] + 1].p


=============================================================================
